---------------------------- MODULE Spec2Model ----------------------------


(***************************************************************************)
(* Webhook ingress of webhook-processor: the POST /webhook closure of the  *)
(* router, the production webhook handler, the in-memory rate limiter and  *)
(* the broker publish.                                                     *)
(*                                                                         *)
(* One HTTP request is in flight at a time; its goroutine moves through    *)
(* the positions of pc.  The request body is a stream: every JSON decoder  *)
(* put on c.Request.Body consumes what it reads.  A body is modelled as    *)
(* the sequence of the parts successive decoders see: a body that fits the *)
(* decoder's first read (the common case) is ONE part, and a second        *)
(* decoder on the same stream then finds the end of the stream; a longer   *)
(* body leaves a second part unread behind the first decoder.              *)
(***************************************************************************)
EXTENDS Integers, Sequences, FiniteSets, TLC

(***************************************************************************)
(* Bounds of the model.                                                    *)
(***************************************************************************)
MaxRequests == 2        \* requests served in one behaviour
MaxTicks == 4           \* clock ticks in one behaviour (rate-limiter runs)
TickHours == 12         \* hours per clock tick
MaxOver == 2            \* calls made beyond the daily limit (rate-limiter runs)
MaxAttempts == 4        \* deliveries of one message in one behaviour
MaxCalls == 2           \* AllowRequest calls of one goroutine (concurrent runs)

(***************************************************************************)
(* Program constants.                                                      *)
(***************************************************************************)
dailyLimit == 10000             \* freePlan.dailyLimit
freeWebhookLimit == 20          \* freePlan.webhookLimit
premiumWebhookLimit == 50       \* premiumPlan.webhookLimit
WindowHours == 24               \* 24*time.Hour in AllowRequest
maxRetries == 3                 \* Worker.maxRetries

StatusOK == 200
StatusBadRequest == 400
StatusUnauthorized == 401
StatusTooManyRequests == 429
StatusInternalServerError == 500

EventStatusPending == "pending"
EventStatusProcessed == "processed"
EventStatusFailed == "failed"
EventStatusRetrying == "retrying"

(***************************************************************************)
(* JSON values as the decoder hands them over in map[string]interface{}.   *)
(***************************************************************************)
\* A number is a float64: n is its integer part and f its first decimal
\* digit (numbers are not negative here).
Str(s) == [k |-> "str", s |-> s, n |-> 0, f |-> 0]
NumF(n, f) == [k |-> "num", s |-> "", n |-> n, f |-> f]
Num(n) == NumF(n, 0)
Bool(b) == [k |-> "bool", s |-> IF b THEN "true" ELSE "false", n |-> 0, f |-> 0]
Null == [k |-> "null", s |-> "", n |-> 0, f |-> 0]
\* an array: items are its elements, in order
Arr(items) == [k |-> "arr", s |-> "", n |-> 0, f |-> 0, items |-> items]

\* int64(val): the conversion truncates the fraction
Int64(v) == v.n
\* fmt.Sprintf("%.0f", val): no decimals, rounded to nearest, halves to even
FormatF0(v) ==
    ToString(IF v.f > 5 \/ (v.f = 5 /\ v.n % 2 = 1) THEN v.n + 1 ELSE v.n)

EmptyObj == [f \in {} |-> Null]

\* data[f].(string): the value and ok of a type assertion to string
IsStr(data, f) == f \in DOMAIN data /\ data[f].k = "str"
StrOf(data, f) == IF IsStr(data, f) THEN data[f].s ELSE ""
\* data[f].(float64)
IsNum(data, f) == f \in DOMAIN data /\ data[f].k = "num"
\* data[f] != nil: the key is present with a non-null value
NotNil(data, f) == f \in DOMAIN data /\ data[f].k # "null"
\* data[f].([]interface{}) and the loop that keeps the elements that are
\* strings
RECURSIVE Strings(_)
Strings(items) ==
    IF items = <<>> THEN <<>>
    ELSE (IF Head(items).k = "str" THEN <<Head(items).s>> ELSE <<>>)
             \o Strings(Tail(items))
IsArr(data, f) == f \in DOMAIN data /\ data[f].k = "arr"

(***************************************************************************)
(* The bodies that are sent.  A part is what one decoder run sees: a JSON  *)
(* object, or bytes that do not decode into a map.                         *)
(***************************************************************************)
Obj(o) == [ok |-> TRUE, obj |-> o]
Garbage == [ok |-> FALSE, obj |-> EmptyObj]

DocEmpty == EmptyObj
DocTest == ("test" :> Bool(TRUE))
DocTestNull == ("test" :> Null)
DocValidation == ("event" :> Str("validation"))
DocDelivered ==
    ("event" :> Str("delivered")) @@ ("email" :> Str("a@b"))
        @@ ("campaign_id" :> Str("c")) @@ ("ts" :> Num(17))

FirstParts == {Garbage, Obj(DocEmpty), Obj(DocTest), Obj(DocTestNull),
               Obj(DocValidation), Obj(DocDelivered)}
SecondParts == {Garbage, Obj(DocDelivered)}
Bodies == {<<>>} \cup {<<p>> : p \in FirstParts}
              \cup {<<p, q>> : p \in FirstParts, q \in SecondParts}

\* Headers.  "abc123" is a webhook id registered at the ESP by tenant t1.
WebhookIdHeaders == {"", "WebhookID", "abc123"}
UserAgents == {"MailerCloud", "curl"}
ApiKeyHeaders == {"", "K1", "bad"}

Requests == [webhookId : WebhookIdHeaders, userAgent : UserAgents,
             apiKey : ApiKeyHeaders, body : Bodies]

\* os.Environ() of the ingress: the packed list names three tenants, two of
\* them have a variable of their own as well
Environ ==
    ("MAILERCLOUD_API_KEYS" :> "t1:K1,t2:K2,t3:K3")
        @@ ("MAILERCLOUD_API_KEY" :> "")
        @@ ("T1_API_KEY" :> "K1")
        @@ ("T2_API_KEY" :> "K2")
        @@ ("API_KEY_HEADER" :> "X-API-Key")

\* strings.Split(apiKeysEnv, ","), then strings.Split(config, ":"): the
\* client -> apiKey pairs of the packed list
SplitPacked(apiKeysEnv) ==
    IF apiKeysEnv = "t1:K1,t2:K2,t3:K3"
    THEN ("t1" :> "K1") @@ ("t2" :> "K2") @@ ("t3" :> "K3")
    ELSE [c \in {} |-> ""]

\* strings.HasSuffix(envName, "_API_KEY")
HasSuffixApiKey(envName) ==
    envName \in {"MAILERCLOUD_API_KEY", "T1_API_KEY", "T2_API_KEY"}
\* strings.ToLower(strings.TrimSuffix(envName, "_API_KEY"))
ClientName(envName) ==
    CASE envName = "T1_API_KEY" -> "t1"
      [] envName = "T2_API_KEY" -> "t2"
      [] envName = "MAILERCLOUD_API_KEY" -> "mailercloud"

\* loadAPIKeysFromEnv: MAILERCLOUD_API_KEY when it is not empty, and every
\* other variable whose name ends in _API_KEY
loadAPIKeysFromEnv(environ) ==
    LET single == IF environ["MAILERCLOUD_API_KEY"] # ""
                  THEN ("mailercloud" :> environ["MAILERCLOUD_API_KEY"])
                  ELSE [c \in {} |-> ""]
        named == {n \in DOMAIN environ :
                     HasSuffixApiKey(n) /\ n # "MAILERCLOUD_API_KEY"}
    IN [c \in {ClientName(n) : n \in named} |->
           environ[CHOOSE n \in named : ClientName(n) = c]] @@ single

\* cfg.Security.APIKeys: clientID -> apiKey
SecurityAPIKeys == loadAPIKeysFromEnv(Environ)

\* WebhookMapping.WebhookToClient after a successful load, and after a load
\* that fetched nothing
MappingLoaded == ("abc123" :> "t1")
MappingEmpty == [w \in {} |-> ""]

VARIABLES
    webhookToClient,    \* WebhookMapping.WebhookToClient
    limits,             \* RateLimiter.limits: clientID -> clientLimit
    now,                \* the clock, in ticks
    queue,              \* messages the broker accepted, oldest first
    pc,                 \* position of the request goroutine
    req,                \* the request in flight (headers, whole body)
    bodyLeft,           \* what is still unread of c.Request.Body
    reqData,            \* HandleWebhook's data, the parsed body
    clientID,           \* HandleWebhook's clientID
    allowed,            \* what AllowRequest returned: "unset", "true", "false"
    event,              \* HandleWebhook's event
    resp,               \* the response written by c.JSON
    pubCalls,           \* Publish calls made for the request
    pubErr,             \* whether the last Publish returned an error
    trace,              \* steps the request went through, in order
    atStart,            \* limits and queue length when the request arrived
    served,             \* requests received so far
    rlHist,             \* rate-limiter runs: the calls made, per client
    \* the worker process
    ready,              \* deliveries waiting in the broker queue, next first
    inflight,           \* the delivery the consumer goroutine is working on
    wpc,                \* position of the consumer goroutine
    wevent,             \* the goroutine's event
    coll,               \* the documents of the collection, in insertion order
    origin,             \* per document: the message and delivery that wrote it
    hist,               \* per message: deliveries, failures, acks and nacks
    wproc,              \* the worker process: running, signalled, exited
    lateStart,          \* a delivery was taken up after the signal
    \* the ingress process
    srvpc,              \* position of the server's main goroutine
    chOpen,             \* the publisher's channel is open
    connOpen,           \* the publisher's broker connection is open
    httpAccepting,      \* the HTTP server accepts new requests
    shutTrace,          \* the shutdown steps taken, in order
    \* startup, and the runs of single functions
    boot,               \* what the mapping load at startup met
    gen,                \* two bodies and the ids generateWebhookID gave them
    dbg,                \* one request and what either handler variant did
    mu,                 \* RateLimiter.mu: the goroutine that holds it
    calls,              \* the AllowRequest calls in progress, per goroutine
    pipe                \* one body on its way from the handler to the store

ivars == <<webhookToClient, limits, now, queue, pc, req, bodyLeft, reqData,
           clientID, allowed, event, resp, pubCalls, pubErr, trace, atStart,
           served, rlHist>>
wvars == <<ready, inflight, wpc, wevent, coll, origin, hist, wproc, lateStart>>
svars == <<srvpc, chOpen, connOpen, httpAccepting, shutTrace>>
xvars == <<boot, gen, dbg, mu, calls, pipe>>
vars == <<ivars, wvars, svars, xvars>>

Hours(t) == t * TickHours


(***************************************************************************)
(* gin's c.ShouldBindJSON(&m) on the request body: a json.Decoder on the   *)
(* stream decodes the next part into the map and leaves the stream behind  *)
(* what it read.  At the end of the stream Decode returns io.EOF.          *)
(***************************************************************************)
ShouldBindJSON(stream) ==
    IF stream = <<>>
    THEN [err |-> TRUE, obj |-> EmptyObj, rest |-> <<>>]
    ELSE [err |-> ~Head(stream).ok, obj |-> Head(stream).obj,
          rest |-> Tail(stream)]

(***************************************************************************)
(* Rate limiter.                                                           *)
(***************************************************************************)
NewClientLimit(t) ==
    [dailyCount |-> 0, lastReset |-> t, webhookCount |-> 0,
     isPremium |-> FALSE]

\* limit, exists := rl.limits[clientID]; if !exists { ... }
LimitEntry(lims, id, t) ==
    IF id \in DOMAIN lims THEN lims[id] ELSE NewClientLimit(t)

\* now.Sub(limit.lastReset) >= 24*time.Hour
WindowExpired(limit, t) == Hours(t) - Hours(limit.lastReset) >= WindowHours

ResetIfNewDay(limit, t) ==
    IF WindowExpired(limit, t)
    THEN [limit EXCEPT !.dailyCount = 0, !.lastReset = t]
    ELSE limit

\* WithinLimits with the daily test off by one (> for >=)
WithinLimitsOffByOne(limit) ==
    IF limit.isPremium
    THEN ~(limit.webhookCount >= premiumWebhookLimit)
    ELSE /\ ~(limit.webhookCount >= freeWebhookLimit)
         /\ ~(limit.dailyCount > dailyLimit)

\* the plan checks of AllowRequest: TRUE when the call is let through
WithinLimits(limit) ==
    IF limit.isPremium
    THEN ~(limit.webhookCount >= premiumWebhookLimit)
    ELSE /\ ~(limit.webhookCount >= freeWebhookLimit)
         /\ ~(limit.dailyCount >= dailyLimit)

\* a variant of AllowRequest that counts the calls it turns away as well
AllowRequestCountsDenied(lims, id, t) ==
    LET limit == ResetIfNewDay(LimitEntry(lims, id, t), t)
    IN [ok |-> WithinLimits(limit),
        limits |-> (id :> [limit EXCEPT !.dailyCount = @ + 1]) @@ lims]

\* AllowRequest under rl.mu: the answer and the table it leaves
AllowRequest(lims, id, t) ==
    LET limit == ResetIfNewDay(LimitEntry(lims, id, t), t)
        ok == WithinLimits(limit)
        after == IF ok THEN [limit EXCEPT !.dailyCount = @ + 1] ELSE limit
    IN [ok |-> ok, limits |-> (id :> after) @@ lims]

(***************************************************************************)
(* Router: the POST /webhook closure.                                      *)
(***************************************************************************)
\* isMailerCloudValidation after the header test and the payload test
IsMailerCloudValidation(r, bind) ==
    \/ r.webhookId = "WebhookID"
    \/ r.userAgent = "MailerCloud"
    \/ /\ ~bind.err
       /\ \/ Cardinality(DOMAIN bind.obj) = 0
          \/ /\ Cardinality(DOMAIN bind.obj) = 1
             /\ NotNil(bind.obj, "test")

\* ValidKey that takes any non-empty key
ValidKeyAny(apiKey) == apiKey # ""

\* for _, key := range cfg.Security.APIKeys { if key == apiKey ... }
ValidKey(apiKey) == \E c \in DOMAIN SecurityAPIKeys : SecurityAPIKeys[c] = apiKey

\* RouterBranch with the API-key tests ahead of the Webhook-Id test
RouterBranchKeyFirst(r, bind) ==
    IF IsMailerCloudValidation(r, bind) THEN "validation"
    ELSE IF r.apiKey = "" THEN "missing_key"
    ELSE IF ~ValidKey(r.apiKey) THEN "invalid_key"
    ELSE IF r.webhookId # "" /\ r.webhookId # "WebhookID" THEN "mailercloud"
    ELSE "authenticated"

\* which way the closure leaves, in the order of its tests
RouterBranch(r, bind) ==
    IF IsMailerCloudValidation(r, bind) THEN "validation"
    ELSE IF r.webhookId # "" /\ r.webhookId # "WebhookID" THEN "mailercloud"
    ELSE IF r.apiKey = "" THEN "missing_key"
    ELSE IF ~ValidKey(r.apiKey) THEN "invalid_key"
    ELSE "authenticated"

(***************************************************************************)
(* Responses (gin.H bodies written by c.JSON).                             *)
(***************************************************************************)
Response(status, err, message, success, wid, cid) ==
    [status |-> status, error |-> err, message |-> message,
     success |-> success, webhook_id |-> wid, client_id |-> cid]
NoResponse == Response(0, "", "", FALSE, "", "")

RouterResponse(branch) ==
    CASE branch = "validation" ->
            Response(StatusOK, "", "Webhook validation successful", TRUE, "", "")
      [] branch = "missing_key" ->
            Response(StatusUnauthorized, "Missing API key", "", FALSE, "", "")
      [] branch = "invalid_key" ->
            Response(StatusUnauthorized, "Invalid API key", "", FALSE, "", "")
      [] OTHER -> NoResponse

(***************************************************************************)
(* Production handler: attribution, identity, field extraction.            *)
(***************************************************************************)
\* WebhookMappingService.GetClientForWebhook
GetClientForWebhook(map, webhookID) ==
    [found |-> webhookID \in DOMAIN map,
     clientID |-> IF webhookID \in DOMAIN map THEN map[webhookID] ELSE ""]

\* extractClientID reads the mapping and leaves it as it is; the variant
\* binds a Webhook-Id that it did not find
MappingLearnsHeader(map, r) ==
    IF r.webhookId # "" /\ ~GetClientForWebhook(map, r.webhookId).found
    THEN (r.webhookId :> r.webhookId) @@ map
    ELSE map
MappingAfterLookup(map, r) == map

\* a variant of extractClientID without the fallback to the header
extractClientIDBoundOnly(map, r) ==
    IF r.webhookId # "" /\ GetClientForWebhook(map, r.webhookId).found
    THEN GetClientForWebhook(map, r.webhookId).clientID
    ELSE "unknown"

\* MailerCloudWebhookHandler.extractClientID (h.webhookMapper is never nil:
\* NewWebhookMappingService always returns a service)
extractClientID(map, r) ==
    IF r.webhookId # "" /\ GetClientForWebhook(map, r.webhookId).found
    THEN GetClientForWebhook(map, r.webhookId).clientID
    ELSE IF r.webhookId # "" THEN r.webhookId
    ELSE "unknown"

\* fmt's %x of a string: the hex digits of its bytes
HexOf(s) ==
    CASE s = "c" -> "63"
      [] s = "a" -> "61"
      [] s = "18" -> "3138"
      [] s = "a@b" -> "614062"
      [] s = "17" -> "3137"
      [] s = "delivered" -> "64656c697665726564"
      [] s = "validation" -> "76616c69646174696f6e"

\* fmt's %x of a []string: [h1 h2 ...]
RECURSIVE HexJoin(_)
HexJoin(components) ==
    IF Len(components) = 1 THEN HexOf(components[1])
    ELSE HexOf(components[1]) \o " " \o HexJoin(Tail(components))

\* the first of fields that is a non-empty string in data, "" when none is
RECURSIVE FirstNonEmpty(_, _)
FirstNonEmpty(data, fields) ==
    IF fields = <<>> THEN ""
    ELSE IF StrOf(data, Head(fields)) # "" THEN StrOf(data, Head(fields))
    ELSE FirstNonEmpty(data, Tail(fields))

\* the first of fields that is a string in data (empty or not), "" when none
RECURSIVE FirstString(_, _)
FirstString(data, fields) ==
    IF fields = <<>> THEN ""
    ELSE IF IsStr(data, Head(fields)) THEN data[Head(fields)].s
    ELSE FirstString(data, Tail(fields))

idFields == <<"webhook_id", "message_id", "event_id", "delivery_id", "tracking_id">>

\* the components of strategy 2, in the order they are appended
Components(data) ==
    (IF StrOf(data, "campaign_id") # "" THEN <<StrOf(data, "campaign_id")>> ELSE <<>>)
    \o (IF StrOf(data, "email") # "" THEN <<StrOf(data, "email")>> ELSE <<>>)
    \o (IF IsNum(data, "ts") THEN <<FormatF0(data["ts"])>> ELSE <<>>)
    \o (IF StrOf(data, "event") # "" THEN <<StrOf(data, "event")>> ELSE <<>>)

\* MailerCloudWebhookHandler.generateWebhookID; t is the clock reading of
\* time.Now().UnixNano()
generateWebhookID(data, t) ==
    IF FirstNonEmpty(data, idFields) # "" THEN FirstNonEmpty(data, idFields)
    ELSE IF Len(Components(data)) > 0
    THEN "mc_[" \o HexJoin(Components(data)) \o "]"
    ELSE "mc_" \o ToString(t)

NoEvent ==
    [WebhookID |-> "", WebhookType |-> "", ClientID |-> "", ReceivedAt |-> 0,
     Status |-> "", RetryCount |-> 0, Event |-> "", CampaignName |-> "",
     CampaignID |-> "", TagName |-> "", DateEvent |-> "", Timestamp |-> 0,
     TimestampEvent |-> 0, Email |-> "", URL |-> "", Reason |-> "",
     ListID |-> Null, Emails |-> <<>>]

\* the event HandleWebhook builds from the parsed body
BuildEvent(data, cid, t) ==
    [WebhookID |-> generateWebhookID(data, t),
     WebhookType |-> "email_event",
     ClientID |-> cid,
     ReceivedAt |-> t,
     Status |-> EventStatusPending,
     RetryCount |-> 0,
     Event |-> StrOf(data, "event"),
     CampaignName |-> FirstString(data, <<"campaign_name", "campaign name">>),
     CampaignID |-> FirstString(data, <<"campaign_id", "camp_id">>),
     TagName |-> FirstString(data, <<"tag_name", "tag">>),
     DateEvent |-> StrOf(data, "date_event"),
     Timestamp |-> IF IsNum(data, "ts") THEN Int64(data["ts"]) ELSE 0,
     TimestampEvent |-> IF IsNum(data, "ts_event") THEN Int64(data["ts_event"]) ELSE 0,
     Email |-> StrOf(data, "email"),
     URL |-> FirstString(data, <<"URL", "url", "click_url">>),
     Reason |-> StrOf(data, "reason"),
     ListID |-> IF "list_id" \in DOMAIN data THEN data["list_id"] ELSE Null,
     Emails |-> IF IsArr(data, "emails") THEN Strings(data["emails"].items)
                ELSE <<>>]

(***************************************************************************)
(* Broker publish: the JSON body (fields tagged json:"-" are not           *)
(* marshalled) and the three metadata headers.                             *)
(***************************************************************************)
Marshal(e) ==
    [webhook_id |-> e.WebhookID, webhook_type |-> e.WebhookType,
     event |-> e.Event, campaign_name |-> e.CampaignName,
     campaign_id |-> e.CampaignID, tag_name |-> e.TagName,
     date_event |-> e.DateEvent, ts |-> e.Timestamp,
     ts_event |-> e.TimestampEvent, email |-> e.Email, URL |-> e.URL,
     list_id |-> e.ListID, reason |-> e.Reason, emails |-> e.Emails]

Publishing(e) ==
    [headers |-> [webhook_id |-> e.WebhookID, webhook_type |-> e.WebhookType,
                  client_id |-> e.ClientID],
     body |-> Marshal(e)]

(***************************************************************************)
(* Control flow of HandleWebhook: where the goroutine goes after each      *)
(* call, and what it answers.                                              *)
(***************************************************************************)
\* after c.ShouldBindJSON(&data) and the User-Agent test
AfterParse(err, userAgent) ==
    IF err THEN "bad_request"
    ELSE IF userAgent = "MailerCloud" THEN "verified"
    ELSE "ratelimit"

\* AfterRateLimit that ignores the answer
AfterRateLimitIgnored(ok) == "publish"

\* after h.rateLimiter.AllowRequest(clientID)
AfterRateLimit(ok) == IF ok THEN "publish" ELSE "rate_limited"

\* AfterPublish that publishes again after an error
AfterPublishRetry(err) == IF err THEN "publish" ELSE "respond"

\* after h.publisher.Publish(event): both branches answer, neither retries
AfterPublish(err) == "respond"

HandlerResponse(outcome) ==
    CASE outcome = "bad_request" ->
            Response(StatusBadRequest, "Invalid JSON payload", "", FALSE, "", "")
      [] outcome = "verified" ->
            Response(StatusOK, "", "Webhook URL verified", TRUE, "", "")
      [] outcome = "rate_limited" ->
            Response(StatusTooManyRequests, "Rate limit exceeded", "", FALSE, "", "")
      [] OTHER -> NoResponse

\* PublishResponse that answers success whatever Publish returned
PublishResponseAlwaysAccepted(err, e) ==
    Response(StatusOK, "", "Event accepted", FALSE, e.WebhookID, e.ClientID)

PublishResponse(err, e) ==
    IF err
    THEN Response(StatusInternalServerError, "Failed to process event", "",
                  FALSE, "", "")
    ELSE Response(StatusOK, "", "Event accepted", FALSE, e.WebhookID, e.ClientID)

(***************************************************************************)
(* Initial states.  The ingress starts with the mapping that the load at   *)
(* startup left.  The limiter table is empty at start; a behaviour may     *)
(* also begin at a later moment of the same process, when the clients have *)
(* used all but one event of their daily quota.                            *)
(***************************************************************************)
NoRequest == [webhookId |-> "", userAgent |-> "", apiKey |-> "", body |-> <<>>]
NoLimits == [c \in {} |-> NewClientLimit(0)]
NearLimit ==
    [c \in {"t1", "abc123", "unknown"} |->
        [NewClientLimit(0) EXCEPT !.dailyCount = dailyLimit - 1]]
NoHist == [c \in {} |-> 0]

InitRequest ==
    /\ pc = "idle"
    /\ req = NoRequest
    /\ bodyLeft = <<>>
    /\ reqData = EmptyObj
    /\ clientID = ""
    /\ allowed = "unset"
    /\ event = NoEvent
    /\ resp = NoResponse
    /\ pubCalls = 0
    /\ pubErr = FALSE
    /\ trace = <<>>
    /\ atStart = [limits |-> NoLimits, queued |-> 0]
    /\ served = 0

\* the worker before it consumes: nothing queued, nothing stored
NoDelivery == [mid |-> 0, ok |-> FALSE, headers |-> <<>>, body |-> Marshal(NoEvent)]
NoMessages == [m \in {} |-> 0]

InitConsumer ==
    /\ inflight = NoDelivery
    /\ wpc = "idle"
    /\ wevent = NoEvent
    /\ coll = <<>>
    /\ origin = <<>>
    /\ wproc = "running"
    /\ lateStart = FALSE

WorkerOff ==
    /\ ready = <<>>
    /\ hist = NoMessages
    /\ InitConsumer

\* the ingress process after NewServer and Start
ServerUp ==
    /\ srvpc = "serving"
    /\ chOpen = TRUE
    /\ connOpen = TRUE
    /\ httpAccepting = TRUE
    /\ shutTrace = <<>>

\* nothing is loading, and no single function is being run
NoKeys == [c \in {} |-> ""]
NoBoot == [keys |-> FALSE, fetched |-> {}, clientToAPIKey |-> NoKeys]
NoGen == [a |-> EmptyObj, b |-> EmptyObj, ta |-> 0, tb |-> 0, ida |-> "", idb |-> ""]
NoDbg == [stage |-> "off"]
NoCalls == [g \in {} |-> 0]
NoPipe == [stage |-> "off"]

HarnessOff ==
    /\ boot = NoBoot
    /\ gen = NoGen
    /\ dbg = NoDbg
    /\ mu = ""
    /\ calls = NoCalls
    /\ pipe = NoPipe

Init ==
    /\ webhookToClient \in {MappingLoaded, MappingEmpty}
    /\ limits \in {NoLimits, NearLimit}
    /\ now = 0
    /\ queue = <<>>
    /\ rlHist = NoHist
    /\ InitRequest
    /\ WorkerOff
    /\ ServerUp
    /\ HarnessOff

(***************************************************************************)
(* A request arrives and runs the POST /webhook closure of the router.     *)
(***************************************************************************)
RouterPost(r) ==
    /\ pc \in {"idle", "done"}
    /\ httpAccepting
    /\ srvpc # "exited"
    /\ served < MaxRequests
    /\ LET bind == ShouldBindJSON(r.body)
           branch == RouterBranch(r, bind)
           handled == branch \in {"mailercloud", "authenticated"}
       IN /\ req' = r
          /\ bodyLeft' = bind.rest
          /\ pc' = IF handled THEN "handler" ELSE "done"
          /\ resp' = RouterResponse(branch)
          /\ trace' = IF handled THEN <<"classify">>
                      ELSE <<"classify", "respond">>
    /\ served' = served + 1
    /\ atStart' = [limits |-> limits, queued |-> Len(queue)]
    /\ reqData' = EmptyObj
    /\ clientID' = ""
    /\ allowed' = "unset"
    /\ event' = NoEvent
    /\ pubCalls' = 0
    /\ pubErr' = FALSE
    /\ UNCHANGED <<webhookToClient, limits, now, queue, rlHist>>
    /\ UNCHANGED <<wvars, svars, xvars>>

\* HandleWebhook up to the attribution
HandleParse ==
    /\ pc = "handler"
    /\ srvpc # "exited"
    /\ LET bind == ShouldBindJSON(bodyLeft)
           next == AfterParse(bind.err, req.userAgent)
       IN /\ bodyLeft' = bind.rest
          /\ reqData' = IF bind.err THEN EmptyObj ELSE bind.obj
          /\ IF next = "ratelimit"
             THEN /\ clientID' = extractClientID(webhookToClient, req)
                  /\ webhookToClient' = MappingAfterLookup(webhookToClient, req)
                  /\ pc' = "ratelimit"
                  /\ trace' = trace \o <<"parse", "attribute">>
                  /\ resp' = resp
             ELSE /\ clientID' = clientID
                  /\ webhookToClient' = webhookToClient
                  /\ pc' = "done"
                  /\ trace' = trace \o <<"parse", "respond">>
                  /\ resp' = HandlerResponse(next)
    /\ UNCHANGED <<limits, now, queue, req, allowed, event,
                   pubCalls, pubErr, atStart, served, rlHist>>
    /\ UNCHANGED <<wvars, svars, xvars>>

\* the rate-limit check, and on acceptance the event built from the body
HandleRateLimit ==
    /\ pc = "ratelimit"
    /\ srvpc # "exited"
    /\ LET a == AllowRequest(limits, clientID, now)
           next == AfterRateLimit(a.ok)
       IN /\ limits' = a.limits
          /\ allowed' = IF a.ok THEN "true" ELSE "false"
          /\ IF next = "publish"
             THEN /\ event' = BuildEvent(reqData, clientID, now)
                  /\ pc' = "publish"
                  /\ trace' = Append(trace, "ratelimit")
                  /\ resp' = resp
             ELSE /\ event' = event
                  /\ pc' = "done"
                  /\ trace' = trace \o <<"ratelimit", "respond">>
                  /\ resp' = HandlerResponse(next)
    /\ UNCHANGED <<webhookToClient, now, queue, req, bodyLeft, reqData, clientID,
                   pubCalls, pubErr, atStart, served, rlHist>>
    /\ UNCHANGED <<wvars, svars, xvars>>

\* the limiter table after Publish returned: the publish-failure branch
\* does not call the limiter; the variant gives the unit back
QuotaRefundedOnFailure(lims, id, err) ==
    IF err /\ id \in DOMAIN lims
    THEN [lims EXCEPT ![id].dailyCount = @ - 1]
    ELSE lims
QuotaAfterPublish(lims, id, err) == lims

\* h.publisher.Publish(event): the broker takes the message, or the call
\* returns an error; on a closed channel it always returns an error
HandlePublish(fails) ==
    /\ pc = "publish"
    /\ srvpc # "exited"
    /\ IF chOpen THEN TRUE ELSE fails
    /\ pubCalls' = pubCalls + 1
    /\ pubErr' = fails
    /\ queue' = IF fails THEN queue ELSE Append(queue, Publishing(event))
    /\ pc' = AfterPublish(fails)
    /\ trace' = Append(trace, "publish")
    /\ limits' = QuotaAfterPublish(limits, clientID, fails)
    /\ UNCHANGED <<webhookToClient, now, req, bodyLeft, reqData, clientID,
                   allowed, event, resp, atStart, served, rlHist>>
    /\ UNCHANGED <<wvars, svars, xvars>>

\* the answer after Publish returned
HandleRespond ==
    /\ pc = "respond"
    /\ srvpc # "exited"
    /\ resp' = PublishResponse(pubErr, event)
    /\ pc' = "done"
    /\ trace' = Append(trace, "respond")
    /\ UNCHANGED <<webhookToClient, limits, now, queue, req, bodyLeft, reqData,
                   clientID, allowed, event, pubCalls, pubErr, atStart, served,
                   rlHist>>
    /\ UNCHANGED <<wvars, svars, xvars>>

\* time passes (rate-limiter runs; the requests of one ingress run fall in
\* one clock tick)
Tick ==
    /\ now < MaxTicks
    /\ now' = now + 1
    /\ UNCHANGED <<webhookToClient, limits, queue, pc, req, bodyLeft, reqData,
                   clientID, allowed, event, resp, pubCalls, pubErr, trace,
                   atStart, served, rlHist>>
    /\ UNCHANGED <<wvars, svars, xvars>>

Next ==
    \/ \E r \in Requests : RouterPost(r)
    \/ HandleParse
    \/ HandleRateLimit
    \/ \E fails \in BOOLEAN : HandlePublish(fails)
    \/ HandleRespond

Spec == Init /\ [][Next]_vars

(***************************************************************************)
(* Rate-limiter runs: one client calls AllowRequest again and again while  *)
(* the clock advances, from the empty table of NewRateLimiter.  rlHist     *)
(* records, per client, the calls as they were made: the time of the first *)
(* call of the current 24h window, the number of calls in that window, the *)
(* answer to the last call, whether it opened the window, and whether any  *)
(* call so far was denied.                                                 *)
(***************************************************************************)
RLClients == {"t2"}

OpensWindow(id, t) ==
    IF id \in DOMAIN rlHist
    THEN Hours(t) - Hours(rlHist[id].anchor) >= WindowHours
    ELSE TRUE

RLAllow(id) ==
    /\ IF OpensWindow(id, now) THEN TRUE
       ELSE rlHist[id].calls < dailyLimit + MaxOver
    /\ LET a == AllowRequest(limits, id, now)
           opens == OpensWindow(id, now)
       IN /\ limits' = a.limits
          /\ rlHist' = (id :> [anchor |-> IF opens THEN now ELSE rlHist[id].anchor,
                               calls |-> IF opens THEN 1 ELSE rlHist[id].calls + 1,
                               ok |-> a.ok,
                               opened |-> opens,
                               denied |-> IF id \in DOMAIN rlHist
                                          THEN rlHist[id].denied \/ ~a.ok
                                          ELSE ~a.ok]) @@ rlHist
    /\ UNCHANGED <<webhookToClient, now, queue, pc, req, bodyLeft, reqData,
                   clientID, allowed, event, resp, pubCalls, pubErr, trace,
                   atStart, served>>
    /\ UNCHANGED <<wvars, svars, xvars>>

InitRL ==
    /\ webhookToClient = MappingLoaded
    /\ limits = NoLimits
    /\ now = 0
    /\ queue = <<>>
    /\ rlHist = NoHist
    /\ InitRequest
    /\ WorkerOff
    /\ ServerUp
    /\ HarnessOff

NextRL ==
    \/ Tick
    \/ \E id \in RLClients : RLAllow(id)

SpecRL == InitRL /\ [][NextRL]_vars

(***************************************************************************)
(* The worker: one consumer goroutine over the broker queue, the           *)
(* collection, and the main goroutine waiting for a signal.                *)
(***************************************************************************)
\* msg.Headers[k].(string): "" when the key is missing
HeaderStr(h, k) == IF k \in DOMAIN h THEN h[k] ELSE ""

\* event := &WebhookEvent{Status: pending, ReceivedAt: now};
\* json.Unmarshal(msg.Body, event): the fields tagged json:"-" keep their value
Unmarshal(body, t) ==
    [NoEvent EXCEPT
        !.Status = EventStatusPending,
        !.ReceivedAt = t,
        !.WebhookID = body.webhook_id,
        !.WebhookType = body.webhook_type,
        !.Event = body.event,
        !.CampaignName = body.campaign_name,
        !.CampaignID = body.campaign_id,
        !.TagName = body.tag_name,
        !.DateEvent = body.date_event,
        !.Timestamp = body.ts,
        !.TimestampEvent = body.ts_event,
        !.Email = body.email,
        !.URL = body.URL,
        !.ListID = body.list_id,
        !.Reason = body.reason,
        !.Emails = body.emails]

\* ApplyHeaders that keeps a value decoded from the body
ApplyHeadersBodyFirst(e, h) ==
    [e EXCEPT
        !.WebhookID = IF @ = "" THEN HeaderStr(h, "webhook_id") ELSE @,
        !.WebhookType = IF @ = "" THEN HeaderStr(h, "webhook_type") ELSE @,
        !.ClientID = IF @ = "" THEN HeaderStr(h, "client_id") ELSE @]

\* the three metadata headers, each taken when it is a non-empty string
ApplyHeaders(e, h) ==
    [e EXCEPT
        !.WebhookID = IF HeaderStr(h, "webhook_id") # ""
                      THEN HeaderStr(h, "webhook_id") ELSE @,
        !.WebhookType = IF HeaderStr(h, "webhook_type") # ""
                        THEN HeaderStr(h, "webhook_type") ELSE @,
        !.ClientID = IF HeaderStr(h, "client_id") # ""
                     THEN HeaderStr(h, "client_id") ELSE @]

\* a key of the document that is written only when its value is set
Optional(key, isSet, value) ==
    IF isSet THEN (key :> value) ELSE [k \in {} |-> value]

\* InsertDoc that treats event like the optional fields
InsertDocEventOptional(e) ==
    [webhook_id |-> e.WebhookID,
     webhook_type |-> e.WebhookType,
     client_id |-> e.ClientID,
     received_at |-> e.ReceivedAt,
     status |-> IF e.Status = "" THEN EventStatusPending ELSE e.Status,
     retry_count |-> e.RetryCount]
        @@ Optional("event", e.Event # "", e.Event)
        @@ Optional("email", e.Email # "", e.Email)

\* the bson.M that InsertEvent writes
InsertDoc(e) ==
    [webhook_id |-> e.WebhookID,
     webhook_type |-> e.WebhookType,
     client_id |-> e.ClientID,
     event |-> e.Event,
     received_at |-> e.ReceivedAt,
     status |-> IF e.Status = "" THEN EventStatusPending ELSE e.Status,
     retry_count |-> e.RetryCount]
        @@ Optional("campaign_id", e.CampaignID # "", e.CampaignID)
        @@ Optional("campaign_name", e.CampaignName # "", e.CampaignName)
        @@ Optional("tag_name", e.TagName # "", e.TagName)
        @@ Optional("date_event", e.DateEvent # "", e.DateEvent)
        @@ Optional("url", e.URL # "", e.URL)
        @@ Optional("email", e.Email # "", e.Email)
        @@ Optional("emails", Len(e.Emails) > 0, e.Emails)
        @@ Optional("list_id", e.ListID # Null, e.ListID)
        @@ Optional("reason", e.Reason # "", e.Reason)

\* collection.UpdateOne(filter webhook_id, $set status, retry_count,
\* updated_at): the first document that matches, none when none matches
Matching(c, webhookID) == {i \in 1..Len(c) : c[i].webhook_id = webhookID}
FirstMatch(c, webhookID) ==
    CHOOSE i \in Matching(c, webhookID) :
        \A j \in Matching(c, webhookID) : i <= j
UpdateEventStatus(c, e, status, t) ==
    IF Matching(c, e.WebhookID) = {} THEN c
    ELSE [c EXCEPT ![FirstMatch(c, e.WebhookID)] =
              [k \in DOMAIN @ \cup {"updated_at"} |->
                  IF k = "status" THEN status
                  ELSE IF k = "retry_count" THEN e.RetryCount
                  ELSE IF k = "updated_at" THEN t
                  ELSE @[k]]]

\* handleError with a budget of one attempt
BudgetSpentAtOnce(retryCount) == retryCount >= 1

\* handleError: event.RetryCount >= w.maxRetries
BudgetSpent(retryCount) == retryCount >= maxRetries

\* NewWorker: baseDelay, in seconds
baseDelay == 10

RECURSIVE Pow2(_)
Pow2(n) == IF n <= 0 THEN 1 ELSE 2 * Pow2(n - 1)

\* calculateBackoff: baseDelay * 2^(retryCount-1) * jitter with jitter drawn
\* from [0.5, 1.0): the delay lies in [low, high) seconds
calculateBackoff(retryCount) ==
    [low |-> (baseDelay * Pow2(retryCount - 1)) \div 2,
     high |-> baseDelay * Pow2(retryCount - 1)]

\* what the queue holds when the worker starts: messages the ingress
\* published, a message of another publisher, and a body that is not JSON
DocNoEvent == ("email" :> Str("a@b"))
IngressMessages ==
    {Publishing(BuildEvent(DocDelivered, "t1", 0)),
     Publishing(BuildEvent(DocNoEvent, "unknown", 0)),
     Publishing(BuildEvent(DocEmpty, "abc123", 0))}
ForeignMessage ==
    [headers |-> ("webhook_id" :> "h1"),
     body |-> Marshal([NoEvent EXCEPT !.WebhookID = "b1", !.Event = "delivered"])]
Delivery(mid, m, ok) ==
    [mid |-> mid, ok |-> ok, headers |-> m.headers, body |-> m.body]
Payloads ==
    {[ok |-> TRUE, m |-> m] : m \in IngressMessages \cup {ForeignMessage}}
        \cup {[ok |-> FALSE, m |-> [headers |-> <<>>, body |-> Marshal(NoEvent)]]}
\* one message, or two (possibly the same event sent twice)
Queues ==
    {<<p>> : p \in Payloads} \cup {<<p, q>> : p \in Payloads, q \in Payloads}
\* the bookkeeping of a message that was not delivered yet
NoHistory(d) ==
    [msg |-> d, deliveries |-> 0, fails |-> 0, insertFails |-> 0,
     inserts |-> 0, acks |-> 0, requeues |-> 0, drops |-> 0]

\* msg.Nack(false, requeue): the broker puts a requeued message back at the
\* head of the queue and discards the other
Nack(q, d, requeue) == IF requeue THEN <<d>> \o q ELSE q

\* the requeue argument of msg.Nack after a failed json.Unmarshal, with
\* its variant that requeues
DecodeFailRequeues == TRUE
DecodeFailRequeue == FALSE

\* the auto-ack argument of channel.Consume, with its variant that lets
\* the broker settle a message as soon as it is delivered
ConsumeAutoAckOn == TRUE
ConsumeAutoAck == FALSE

\* what the broker still holds of the delivery d when the consumer's channel
\* closes: a delivery that was not settled goes back to the head of the queue
Unsettled(d) == IF d.mid # 0 /\ ~ConsumeAutoAck THEN <<d>> ELSE <<>>

\* Start: `continue` after handleError, so that the msg.Ack below is not
\* reached for a delivery handleError has settled; the variant falls through
HandleErrorFallsThrough == FALSE
HandleErrorContinues == TRUE

\* Start: an error of processEvent goes to handleError, which settles the
\* delivery; the variant runs processEvent again on the same delivery
OnProcessErrorRunAgain == "insert"
OnProcessError == "handle"

\* the bookkeeping of one message after a step
Noted(mid, field) == [hist EXCEPT ![mid][field] = @ + 1]
NotedTwice(mid, f, g) == [hist EXCEPT ![mid][f] = @ + 1, ![mid][g] = @ + 1]

\* for msg := range msgs: a new event, json.Unmarshal, then the headers;
\* a body that does not decode is nacked without requeue
Receive ==
    /\ wproc # "exited"
    /\ wpc = "idle"
    /\ ready # <<>>
    /\ hist[Head(ready).mid].deliveries < MaxAttempts
    /\ LET d == Head(ready)
       IN /\ ready' = IF d.ok THEN Tail(ready)
                      ELSE Nack(Tail(ready), d, DecodeFailRequeue)
          /\ lateStart' = IF wproc = "signalled" THEN TRUE ELSE lateStart
          /\ IF d.ok
             THEN /\ inflight' = d
                  /\ wevent' = ApplyHeaders(Unmarshal(d.body, now), d.headers)
                  /\ wpc' = "insert"
                  /\ hist' = Noted(d.mid, "deliveries")
             ELSE /\ inflight' = NoDelivery
                  /\ wevent' = wevent
                  /\ wpc' = "idle"
                  /\ hist' = NotedTwice(d.mid, "deliveries", "drops")
    /\ UNCHANGED <<coll, origin, wproc>>
    /\ UNCHANGED <<ivars, svars, xvars>>

\* processEvent: w.db.InsertEvent(ctx, event)
InsertEvent(fails) ==
    /\ wproc # "exited"
    /\ wpc = "insert"
    /\ IF fails
       THEN /\ wpc' = OnProcessError
            /\ hist' = Noted(inflight.mid, "insertFails")
            /\ UNCHANGED <<coll, origin>>
       ELSE /\ wpc' = "update"
            /\ hist' = Noted(inflight.mid, "inserts")
            /\ coll' = Append(coll, InsertDoc(wevent))
            /\ origin' = Append(origin, [mid |-> inflight.mid,
                                         delivery |-> hist[inflight.mid].deliveries])
    /\ UNCHANGED <<ready, inflight, wevent, wproc, lateStart>>
    /\ UNCHANGED <<ivars, svars, xvars>>

\* processEvent: UpdateEventStatus(processed), then msg.Ack(false)
UpdateProcessed(fails) ==
    /\ wproc # "exited"
    /\ wpc = "update"
    /\ IF fails
       THEN /\ wpc' = OnProcessError
            /\ UNCHANGED <<coll, hist, inflight>>
       ELSE /\ wpc' = "idle"
            /\ coll' = UpdateEventStatus(coll, wevent, EventStatusProcessed, now)
            /\ hist' = Noted(inflight.mid, "acks")
            /\ inflight' = NoDelivery
    /\ UNCHANGED <<ready, wevent, origin, wproc, lateStart>>
    /\ UNCHANGED <<ivars, svars, xvars>>

\* handleError up to the sleep: RetryCount++, then failed and ack, or
\* retrying; an error of UpdateEventStatus is logged only
HandleError(fails) ==
    /\ wproc # "exited"
    /\ wpc = "handle"
    /\ LET e == [wevent EXCEPT !.RetryCount = @ + 1]
           spent == BudgetSpent(e.RetryCount)
           status == IF spent THEN EventStatusFailed ELSE EventStatusRetrying
       IN /\ wevent' = e
          /\ coll' = IF fails THEN coll
                     ELSE UpdateEventStatus(coll, e, status, now)
          /\ IF spent
             THEN /\ wpc' = "idle"
                  /\ hist' = NotedTwice(inflight.mid, "fails", "acks")
                  /\ inflight' = NoDelivery
             ELSE /\ wpc' = "sleep"
                  /\ hist' = Noted(inflight.mid, "fails")
                  /\ inflight' = inflight
    /\ UNCHANGED <<ready, origin, wproc, lateStart>>
    /\ UNCHANGED <<ivars, svars, xvars>>

\* handleError after time.Sleep(delay): msg.Nack(false, true); the broker
\* puts the message back at the head of the queue
NackRequeue ==
    /\ wproc # "exited"
    /\ wpc = "sleep"
    /\ ready' = Nack(ready, inflight, TRUE)
    /\ hist' = IF HandleErrorContinues THEN Noted(inflight.mid, "requeues")
               ELSE NotedTwice(inflight.mid, "requeues", "acks")
    /\ inflight' = NoDelivery
    /\ wpc' = "idle"
    /\ UNCHANGED <<wevent, coll, origin, wproc, lateStart>>
    /\ UNCHANGED <<ivars, svars, xvars>>

\* main: <-quit
WorkerSignal ==
    /\ wproc = "running"
    /\ wproc' = "signalled"
    /\ UNCHANGED <<ready, inflight, wpc, wevent, coll, origin, hist, lateStart>>
    /\ UNCHANGED <<ivars, svars, xvars>>

\* main returns: the deferred ch.Close and amqpConn.Close run and the
\* process ends with the consumer goroutine wherever it is; the broker
\* takes the unacknowledged delivery back
WorkerExit ==
    /\ wproc = "signalled"
    /\ wproc' = "exited"
    /\ ready' = Unsettled(inflight) \o ready
    /\ UNCHANGED <<inflight, wpc, wevent, coll, origin, hist, lateStart>>
    /\ UNCHANGED <<ivars, svars, xvars>>

\* the worker is started again: main declares the same durable queue and
\* Start consumes from it with a new goroutine
WorkerStart ==
    /\ wproc = "exited"
    /\ wproc' = "running"
    /\ inflight' = NoDelivery
    /\ wpc' = "idle"
    /\ wevent' = NoEvent
    /\ UNCHANGED <<ready, coll, origin, hist, lateStart>>
    /\ UNCHANGED <<ivars, svars, xvars>>

InitW ==
    /\ webhookToClient = MappingLoaded
    /\ limits = NoLimits
    /\ now = 0
    /\ queue = <<>>
    /\ rlHist = NoHist
    /\ InitRequest
    /\ ServerUp
    /\ HarnessOff
    /\ ready \in {[i \in DOMAIN q |-> Delivery(i, q[i].m, q[i].ok)] : q \in Queues}
    /\ hist = [m \in DOMAIN ready |-> NoHistory(ready[m])]
    /\ InitConsumer

NextW ==
    \/ Receive
    \/ \E fails \in BOOLEAN : InsertEvent(fails)
    \/ \E fails \in BOOLEAN : UpdateProcessed(fails)
    \/ \E fails \in BOOLEAN : HandleError(fails)
    \/ NackRequeue
    \/ WorkerSignal
    \/ WorkerExit

SpecW == InitW /\ [][NextW]_vars

(***************************************************************************)
(* The worker over its restarts: one message is in the queue, and a worker *)
(* that exited may be started again.                                       *)
(***************************************************************************)
InitRestart ==
    /\ InitW
    /\ Len(ready) = 1

NextRestart ==
    \/ Receive
    \/ \E fails \in BOOLEAN : InsertEvent(fails)
    \/ \E fails \in BOOLEAN : UpdateProcessed(fails)
    \/ \E fails \in BOOLEAN : HandleError(fails)
    \/ NackRequeue
    \/ WorkerSignal
    \/ WorkerExit
    \/ WorkerStart

SpecRestart == InitRestart /\ [][NextRestart]_vars

(***************************************************************************)
(* The ingress process around the requests: main waits for a signal and    *)
(* calls Server.Shutdown.                                                  *)
(***************************************************************************)
\* main: <-quit
SrvSignal ==
    /\ srvpc = "serving"
    /\ srvpc' = "closing"
    /\ UNCHANGED <<chOpen, connOpen, httpAccepting, shutTrace>>
    /\ UNCHANGED <<ivars, wvars, xvars>>

\* Shutdown: s.publisher.Close(), which is RabbitMQ.Close: r.ch.Close()
\* and then r.conn.Close()
ClosePublisher ==
    /\ srvpc = "closing"
    /\ chOpen' = FALSE
    /\ connOpen' = FALSE
    /\ shutTrace' = shutTrace \o <<"close_channel", "close_connection">>
    /\ srvpc' = "http"
    /\ UNCHANGED httpAccepting
    /\ UNCHANGED <<ivars, wvars, xvars>>

\* Shutdown: s.httpServer.Shutdown(ctx) closes the listeners and starts to
\* wait for the handlers that are running
HttpShutdown ==
    /\ srvpc = "http"
    /\ httpAccepting' = FALSE
    /\ shutTrace' = Append(shutTrace, "http_shutdown")
    /\ srvpc' = "draining"
    /\ UNCHANGED <<chOpen, connOpen>>
    /\ UNCHANGED <<ivars, wvars, xvars>>

\* the process ends: no handler is running any more ("drained"), the 5
\* seconds of ctx are over ("timeout"), or the goroutine of srv.Start, for
\* which ListenAndServe returned ErrServerClosed, has called logger.Fatalf
\* ("fatal")
ExitCauses == {"drained", "timeout", "fatal"}
SrvExit(cause) ==
    /\ srvpc = "draining"
    /\ IF cause = "drained" THEN pc \in {"idle", "done"} ELSE TRUE
    /\ srvpc' = "exited"
    /\ shutTrace' = Append(shutTrace, cause)
    /\ UNCHANGED <<chOpen, connOpen, httpAccepting>>
    /\ UNCHANGED <<ivars, wvars, xvars>>

InitSrv ==
    /\ webhookToClient = MappingLoaded
    /\ limits = NoLimits
    /\ now = 0
    /\ queue = <<>>
    /\ rlHist = NoHist
    /\ InitRequest
    /\ WorkerOff
    /\ ServerUp
    /\ HarnessOff

NextSrv ==
    \/ \E r \in Requests : RouterPost(r)
    \/ HandleParse
    \/ HandleRateLimit
    \/ \E fails \in BOOLEAN : HandlePublish(fails)
    \/ HandleRespond
    \/ SrvSignal
    \/ ClosePublisher
    \/ HttpShutdown
    \/ \E cause \in ExitCauses : SrvExit(cause)

SpecSrv == InitSrv /\ [][NextSrv]_vars

(***************************************************************************)
(* Startup of the ingress: Setup creates the mapping service, empty, and   *)
(* loads the bindings: MAILERCLOUD_API_KEYS names the clients, and for     *)
(* each of them the ESP lists its webhooks; the listing call of a client   *)
(* may fail.  Then the router is built and the server listens.             *)
(***************************************************************************)
BootClients == DOMAIN SplitPacked(Environ["MAILERCLOUD_API_KEYS"])
\* the webhooks each client registered at the ESP
EspWebhooks == ("t1" :> {"abc123"}) @@ ("t2" :> {"def456"}) @@ ("t3" :> {})

\* LoadMappingFromEnvironment: keysSet says whether MAILERCLOUD_API_KEYS is
\* set, reachable is the set of clients whose listing call succeeds
LoadMappingFromEnvironment(keysSet, reachable) ==
    IF ~keysSet
    THEN [err |-> TRUE, mapping |-> MappingEmpty, clientToAPIKey |-> NoKeys]
    ELSE [err |-> FALSE,
          clientToAPIKey |-> SplitPacked(Environ["MAILERCLOUD_API_KEYS"]),
          mapping |->
              [w \in UNION {EspWebhooks[c] : c \in reachable} |->
                  CHOOSE c \in reachable : w \in EspWebhooks[c]]]

\* Setup after the load: the error is logged and Setup goes on; the variant
\* gives up on an error
SetupAborts(loadErr) == IF loadErr THEN "exited" ELSE "serving"
SetupContinues(loadErr) == "serving"

RouterSetup(keysSet, reachable) ==
    /\ srvpc = "starting"
    /\ LET load == LoadMappingFromEnvironment(keysSet, reachable)
       IN /\ webhookToClient' = load.mapping
          /\ srvpc' = SetupContinues(load.err)
          /\ httpAccepting' = (SetupContinues(load.err) = "serving")
    /\ boot' = [keys |-> keysSet, fetched |-> IF keysSet THEN reachable ELSE {},
                clientToAPIKey |->
                    LoadMappingFromEnvironment(keysSet, reachable).clientToAPIKey]
    /\ UNCHANGED <<limits, now, queue, pc, req, bodyLeft, reqData, clientID,
                   allowed, event, resp, pubCalls, pubErr, trace, atStart,
                   served, rlHist>>
    /\ UNCHANGED <<chOpen, connOpen, shutTrace>>
    /\ UNCHANGED <<wvars, gen, dbg, mu, calls, pipe>>

\* the requests sent to the started ingress: webhooks with and without a
\* Webhook-Id, bound or not; the body is long enough for the handler's
\* decoder to find an object
BootRequests ==
    [webhookId : {"", "abc123", "def456", "unknown"}, userAgent : {"curl"},
     apiKey : {"", "K1", "K3"}, body : {<<Obj(DocDelivered), Obj(DocDelivered)>>}]

InitBoot ==
    /\ webhookToClient = MappingEmpty
    /\ limits = NoLimits
    /\ now = 0
    /\ queue = <<>>
    /\ rlHist = NoHist
    /\ InitRequest
    /\ WorkerOff
    /\ srvpc = "starting"
    /\ chOpen = TRUE
    /\ connOpen = TRUE
    /\ httpAccepting = FALSE
    /\ shutTrace = <<>>
    /\ HarnessOff

NextBoot ==
    \/ \E keysSet \in BOOLEAN, reachable \in SUBSET BootClients :
          RouterSetup(keysSet, reachable)
    \/ \E r \in BootRequests : RouterPost(r)
    \/ HandleParse
    \/ HandleRateLimit
    \/ \E fails \in BOOLEAN : HandlePublish(fails)
    \/ HandleRespond

SpecBoot == InitBoot /\ [][NextBoot]_vars

(***************************************************************************)
(* The two handlers Setup chooses from by WEBHOOK_DEBUG, each run to its   *)
(* end on the same request, from the same limiter table and the same       *)
(* mapping.  The request has passed the router, which has read the first   *)
(* part of the body; an outcome is the response status, the limiter table  *)
(* left behind and the event that was published, if one was.               *)
(***************************************************************************)
Outcome(status, lims, e, published) ==
    [status |-> status, limits |-> lims, event |-> e, published |-> published]
NoOutcome == Outcome(0, NoLimits, NoEvent, FALSE)

\* what either handler does once the body is parsed into data by a parse
\* that failed or not, with the tenant cid
AfterBody(err, r, data, cid, lims, t, fails) ==
    IF AfterParse(err, r.userAgent) # "ratelimit"
    THEN Outcome(HandlerResponse(AfterParse(err, r.userAgent)).status, lims,
                 NoEvent, FALSE)
    ELSE IF AfterRateLimit(AllowRequest(lims, cid, t).ok) # "publish"
    THEN Outcome(HandlerResponse("rate_limited").status,
                 AllowRequest(lims, cid, t).limits, NoEvent, FALSE)
    ELSE Outcome(PublishResponse(fails, BuildEvent(data, cid, t)).status,
                 AllowRequest(lims, cid, t).limits,
                 IF fails THEN NoEvent ELSE BuildEvent(data, cid, t), ~fails)

\* MailerCloudWebhookHandler.HandleWebhook
HandleWebhook(r, stream, lims, map, t, fails) ==
    LET bind == ShouldBindJSON(stream)
    IN AfterBody(bind.err, r, bind.obj, extractClientID(map, r), lims, t, fails)

\* io.ReadAll and json.Unmarshal: all that is left of the body has to be
\* one JSON object
ReadAllUnmarshal(stream) ==
    IF Len(stream) = 1 /\ stream[1].ok
    THEN [err |-> FALSE, obj |-> stream[1].obj, rest |-> <<>>]
    ELSE [err |-> TRUE, obj |-> EmptyObj, rest |-> <<>>]

clientFields ==
    <<"client_id", "customer_id", "account_id", "user_id", "tenant_id", "sender_id">>

\* DebugMailerCloudWebhookHandler.extractClientID
DebugExtractClientID(map, r, data) ==
    IF r.webhookId # "" /\ GetClientForWebhook(map, r.webhookId).found
    THEN GetClientForWebhook(map, r.webhookId).clientID
    ELSE IF r.webhookId # "" THEN r.webhookId
    ELSE IF FirstNonEmpty(data, clientFields) # ""
    THEN FirstNonEmpty(data, clientFields)
    ELSE "unknown"

\* DebugMailerCloudWebhookHandler.HandleWebhook
DebugHandleWebhook(r, stream, lims, map, t, fails) ==
    LET read == ReadAllUnmarshal(stream)
    IN AfterBody(read.err, r, read.obj, DebugExtractClientID(map, r, read.obj),
                 lims, t, fails)

DocTenant == DocDelivered @@ ("client_id" :> Str("t9"))
LaterParts == {Garbage, Obj(DocDelivered), Obj(DocTenant)}
DbgBodies ==
    {<<Obj(DocDelivered)>> \o rest :
        rest \in {<<>>} \cup {<<p>> : p \in LaterParts}
                    \cup {<<p, q>> : p \in LaterParts, q \in LaterParts}}
\* the requests the router hands to the handler
DbgRequests ==
    {r \in [webhookId : {"", "abc123"}, userAgent : UserAgents,
            apiKey : {"", "K1"}, body : DbgBodies] :
        RouterBranch(r, ShouldBindJSON(r.body)) \in {"mailercloud", "authenticated"}}

RunProduction ==
    /\ dbg.stage = "on"
    /\ dbg.prod = NoOutcome
    /\ dbg' = [dbg EXCEPT !.prod = HandleWebhook(dbg.r, dbg.rest, dbg.lims,
                                                 dbg.map, now, dbg.fails)]
    /\ UNCHANGED <<ivars, wvars, svars, boot, gen, mu, calls, pipe>>

RunDebug ==
    /\ dbg.stage = "on"
    /\ dbg.debug = NoOutcome
    /\ dbg' = [dbg EXCEPT !.debug = DebugHandleWebhook(dbg.r, dbg.rest, dbg.lims,
                                                       dbg.map, now, dbg.fails)]
    /\ UNCHANGED <<ivars, wvars, svars, boot, gen, mu, calls, pipe>>

InitDbg ==
    /\ webhookToClient = MappingLoaded
    /\ limits = NoLimits
    /\ now = 0
    /\ queue = <<>>
    /\ rlHist = NoHist
    /\ InitRequest
    /\ WorkerOff
    /\ ServerUp
    /\ boot = NoBoot
    /\ gen = NoGen
    /\ mu = ""
    /\ pipe = NoPipe
    /\ calls = NoCalls
    /\ dbg \in {[stage |-> "on", r |-> r, rest |-> ShouldBindJSON(r.body).rest,
                  lims |-> l, map |-> m, fails |-> f,
                  prod |-> NoOutcome, debug |-> NoOutcome] :
                    r \in DbgRequests, l \in {NoLimits, NearLimit},
                    m \in {MappingLoaded, MappingEmpty}, f \in BOOLEAN}

NextDbg ==
    \/ RunProduction
    \/ RunDebug

SpecDbg == InitDbg /\ [][NextDbg]_vars

(***************************************************************************)
(* Concurrent AllowRequest calls: the request goroutines of gin call the   *)
(* limiter for the same client while the clock advances.  A call locks     *)
(* rl.mu, looks the entry up (creating it, and resetting it when its       *)
(* window is over), tests the limits, counts, and unlocks on return.  Per  *)
(* goroutine, acc keeps the clock readings of its accepted calls and prior *)
(* the calls accepted at time 0 before the behaviour begins.               *)
(***************************************************************************)
Goroutines == {"g1", "g2"}
MuClient == "t2"

\* rl.mu.Lock() goes through when nobody holds the mutex; the variant lets
\* every caller through
MutexIgnored(holder) == TRUE
MutexFree(holder) == holder = ""

IdleCall == [pc |-> "idle", t |-> 0, done |-> 0, last |-> "none",
             acc |-> <<>>, prior |-> 0]

MuLock(g) ==
    /\ calls[g].pc = "idle"
    /\ calls[g].done < MaxCalls
    /\ MutexFree(mu)
    /\ mu' = g
    /\ calls' = [calls EXCEPT ![g].pc = "lookup"]
    /\ UNCHANGED <<ivars, wvars, svars, boot, gen, dbg, pipe>>

\* limit, exists := rl.limits[clientID] ... limit.lastReset = now
MuLookup(g) ==
    /\ calls[g].pc = "lookup"
    /\ limits' = (MuClient :> ResetIfNewDay(LimitEntry(limits, MuClient, now), now))
                    @@ limits
    /\ calls' = [calls EXCEPT ![g].pc = "check", ![g].t = now]
    /\ UNCHANGED <<webhookToClient, now, queue, pc, req, bodyLeft, reqData,
                   clientID, allowed, event, resp, pubCalls, pubErr, trace,
                   atStart, served, rlHist>>
    /\ UNCHANGED <<wvars, svars, boot, gen, dbg, mu, pipe>>

\* the plan checks: return false, or go on to count
MuCheck(g) ==
    /\ calls[g].pc = "check"
    /\ calls' = IF WithinLimits(limits[MuClient])
                THEN [calls EXCEPT ![g].pc = "count"]
                ELSE [calls EXCEPT ![g].pc = "return", ![g].last = "denied"]
    /\ UNCHANGED <<ivars, wvars, svars, boot, gen, dbg, mu, pipe>>

\* limit.dailyCount++; return true
MuCount(g) ==
    /\ calls[g].pc = "count"
    /\ limits' = [limits EXCEPT ![MuClient].dailyCount = @ + 1]
    /\ calls' = [calls EXCEPT ![g].pc = "return", ![g].last = "accepted",
                              ![g].acc = Append(@, calls[g].t)]
    /\ UNCHANGED <<webhookToClient, now, queue, pc, req, bodyLeft, reqData,
                   clientID, allowed, event, resp, pubCalls, pubErr, trace,
                   atStart, served, rlHist>>
    /\ UNCHANGED <<wvars, svars, boot, gen, dbg, mu, pipe>>

\* the deferred rl.mu.Unlock()
MuUnlock(g) ==
    /\ calls[g].pc = "return"
    /\ mu' = ""
    /\ calls' = [calls EXCEPT ![g].pc = "idle", ![g].done = @ + 1]
    /\ UNCHANGED <<ivars, wvars, svars, boot, gen, dbg, pipe>>

\* the table of a new limiter, or the client one event short of its limit
\* after calls that goroutine g1 made at time 0
InitMu ==
    /\ webhookToClient = MappingLoaded
    /\ now = 0
    /\ queue = <<>>
    /\ rlHist = NoHist
    /\ InitRequest
    /\ WorkerOff
    /\ ServerUp
    /\ boot = NoBoot
    /\ gen = NoGen
    /\ dbg = NoDbg
    /\ mu = ""
    /\ pipe = NoPipe
    /\ \/ /\ limits = NoLimits
          /\ calls = [g \in Goroutines |-> IdleCall]
       \/ /\ limits = (MuClient :> [NewClientLimit(0) EXCEPT
                                        !.dailyCount = dailyLimit - 1])
          /\ calls = [g \in Goroutines |->
                         IF g = "g1" THEN [IdleCall EXCEPT !.prior = dailyLimit - 1]
                         ELSE IdleCall]

NextMu ==
    \/ Tick
    \/ \E g \in Goroutines : MuLock(g)
    \/ \E g \in Goroutines : MuLookup(g)
    \/ \E g \in Goroutines : MuCheck(g)
    \/ \E g \in Goroutines : MuCount(g)
    \/ \E g \in Goroutines : MuUnlock(g)

SpecMu == InitMu /\ [][NextMu]_vars

(***************************************************************************)
(* AllowRequest for two clients in turn while the clock advances, from an  *)
(* empty table and from tables where clients are one event short of their  *)
(* limit.  calls keeps, per client, the number of calls made and the       *)
(* answer to the last one.                                                 *)
(***************************************************************************)
FrameClients == {"t1", "t2"}
NoCall == [n |-> 0, ok |-> FALSE]
OneLeft == [NewClientLimit(0) EXCEPT !.dailyCount = dailyLimit - 1]

FrameAllow(id) ==
    /\ calls[id].n < MaxCalls
    /\ LET a == AllowRequest(limits, id, now)
       IN /\ limits' = a.limits
          /\ calls' = [calls EXCEPT ![id] = [n |-> calls[id].n + 1, ok |-> a.ok]]
    /\ UNCHANGED <<webhookToClient, now, queue, pc, req, bodyLeft, reqData,
                   clientID, allowed, event, resp, pubCalls, pubErr, trace,
                   atStart, served, rlHist>>
    /\ UNCHANGED <<wvars, svars, boot, gen, dbg, mu, pipe>>

InitFrame ==
    /\ webhookToClient = MappingLoaded
    /\ limits \in {NoLimits, ("t1" :> OneLeft),
                    ("t1" :> OneLeft) @@ ("t2" :> OneLeft)}
    /\ now = 0
    /\ queue = <<>>
    /\ rlHist = NoHist
    /\ InitRequest
    /\ WorkerOff
    /\ ServerUp
    /\ boot = NoBoot
    /\ gen = NoGen
    /\ dbg = NoDbg
    /\ mu = ""
    /\ pipe = NoPipe
    /\ calls = [id \in FrameClients |-> NoCall]

NextFrame ==
    \/ Tick
    \/ \E id \in FrameClients : FrameAllow(id)

SpecFrame == InitFrame /\ [][NextFrame]_vars

(***************************************************************************)
(* Runs of generateWebhookID alone: two parsed bodies, each given its id   *)
(* at some reading of the clock.  The first body is any combination of the *)
(* fields the function looks at; the second has no explicit id field.      *)
(***************************************************************************)
Absent == [k |-> "absent", s |-> "", n |-> 0, f |-> 0]
Pick(key, v) == IF v = Absent THEN EmptyObj ELSE (key :> v)

GenTimestamps == {Absent, Num(17), NumF(17, 2), NumF(17, 7), NumF(18, 2)}
GenComposites ==
    {Pick("campaign_id", c) @@ Pick("email", e) @@ Pick("ts", ts)
        @@ Pick("event", ev) :
        c \in {Absent, Str("a")}, e \in {Absent, Str("a")},
        ts \in GenTimestamps, ev \in {Absent, Str("delivered")}}
GenBodies ==
    {Pick("webhook_id", w) @@ Pick("message_id", m) @@ d :
        w \in {Absent, Str(""), Str("w1")}, m \in {Absent, Str("m1")},
        d \in GenComposites}
GenClock == {1, 2}

GenerateA(t) ==
    /\ gen.ida = ""
    /\ gen' = [gen EXCEPT !.ida = generateWebhookID(gen.a, t), !.ta = t]
    /\ UNCHANGED <<ivars, wvars, svars, boot, dbg, mu, calls, pipe>>

GenerateB(t) ==
    /\ gen.idb = ""
    /\ gen' = [gen EXCEPT !.idb = generateWebhookID(gen.b, t), !.tb = t]
    /\ UNCHANGED <<ivars, wvars, svars, boot, dbg, mu, calls, pipe>>

InitGen ==
    /\ webhookToClient = MappingLoaded
    /\ limits = NoLimits
    /\ now = 0
    /\ queue = <<>>
    /\ rlHist = NoHist
    /\ InitRequest
    /\ WorkerOff
    /\ ServerUp
    /\ boot = NoBoot
    /\ dbg = NoDbg
    /\ mu = ""
    /\ pipe = NoPipe
    /\ calls = NoCalls
    /\ gen \in {[NoGen EXCEPT !.a = a, !.b = b] :
                    a \in GenBodies, b \in GenComposites}

NextGen ==
    \/ \E t \in GenClock : GenerateA(t)
    \/ \E t \in GenClock : GenerateB(t)

SpecGen == InitGen /\ [][NextGen]_vars

(***************************************************************************)
(* One body on its way through the two programs: HandleWebhook extracts    *)
(* the event from it and publishes it, the worker decodes the message and  *)
(* InsertEvent stores the document.                                        *)
(***************************************************************************)
PipeAliases ==
    {Pick("campaign_name", a1) @@ Pick("campaign name", a2)
        @@ Pick("campaign_id", c1) @@ Pick("camp_id", c2)
        @@ Pick("tag_name", t1) @@ ("tag" :> Str("g")) :
        a1 \in {Absent, Str(""), Str("n1")}, a2 \in {Absent, Str("n2")},
        c1 \in {Absent, Str(""), Str("c")}, c2 \in {Absent, Str("a")},
        t1 \in {Absent, Str("")}}
PipeUrls ==
    {Pick("URL", u1) @@ Pick("url", u2) @@ Pick("click_url", u3) :
        u1 \in {Absent, Str("")}, u2 \in {Absent, Str(""), Str("u")},
        u3 \in {Absent, Str("v")}}
PipeRest ==
    {Pick("ts", ts) @@ Pick("ts_event", ts) @@ Pick("emails", em)
        @@ Pick("list_id", l) :
        ts \in {Absent, Num(17)},
        em \in {Absent, Arr(<<>>), Arr(<<Str("a@b"), Num(1)>>)},
        l \in {Absent, Null, Str("l")}}
PipeBodies ==
    {("event" :> Str("delivered")) @@ a @@ u @@ r :
        a \in PipeAliases, u \in PipeUrls, r \in PipeRest}

\* HandleWebhook: the field extraction
ExtractFields ==
    /\ pipe.stage = "body"
    /\ pipe' = [pipe EXCEPT !.stage = "event",
                            !.event = BuildEvent(pipe.data, "t1", now)]
    /\ UNCHANGED <<ivars, wvars, svars, boot, gen, dbg, mu, calls>>

\* HandleWebhook: h.publisher.PublishEvent
PublishEvent ==
    /\ pipe.stage = "event"
    /\ pipe' = [pipe EXCEPT !.stage = "message", !.msg = Publishing(pipe.event)]
    /\ UNCHANGED <<ivars, wvars, svars, boot, gen, dbg, mu, calls>>

\* Worker.Start: json.Unmarshal and the headers
DecodeMessage ==
    /\ pipe.stage = "message"
    /\ pipe' = [pipe EXCEPT
                   !.stage = "decoded",
                   !.wevent = ApplyHeaders(Unmarshal(pipe.msg.body, now),
                                           pipe.msg.headers)]
    /\ UNCHANGED <<ivars, wvars, svars, boot, gen, dbg, mu, calls>>

\* processEvent: w.db.InsertEvent
InsertDecoded ==
    /\ pipe.stage = "decoded"
    /\ pipe' = [pipe EXCEPT !.stage = "stored", !.doc = InsertDoc(pipe.wevent)]
    /\ UNCHANGED <<ivars, wvars, svars, boot, gen, dbg, mu, calls>>

InitPipe ==
    /\ webhookToClient = MappingLoaded
    /\ limits = NoLimits
    /\ now = 0
    /\ queue = <<>>
    /\ rlHist = NoHist
    /\ InitRequest
    /\ WorkerOff
    /\ ServerUp
    /\ boot = NoBoot
    /\ gen = NoGen
    /\ dbg = NoDbg
    /\ mu = ""
    /\ calls = NoCalls
    /\ pipe \in {[stage |-> "body", data |-> d, event |-> NoEvent,
                  msg |-> Publishing(NoEvent), wevent |-> NoEvent,
                  doc |-> EmptyObj] : d \in PipeBodies}

NextPipe ==
    \/ ExtractFields
    \/ PublishEvent
    \/ DecodeMessage
    \/ InsertDecoded

SpecPipe == InitPipe /\ [][NextPipe]_vars

(***************************************************************************)
(* Vocabulary of the properties.                                           *)
(***************************************************************************)
\* a request has been received and the goroutine has returned
Done == pc = "done"

\* decoding the body yields a JSON object
Decodes(r) == r.body # <<>> /\ r.body[1].ok
BodyObj(r) == r.body[1].obj

\* a validation probe as the specification defines it
SpecProbe(r) ==
    \/ r.userAgent = "MailerCloud"
    \/ r.webhookId = "WebhookID"
    \/ Decodes(r) /\ DOMAIN BodyObj(r) \subseteq {"test"}

\* what the router closure decided for the request in flight
Branch == RouterBranch(req, ShouldBindJSON(req.body))
Handled == served > 0 /\ Branch \in {"mailercloud", "authenticated"}

\* nothing was published for the request and no rate-limit entry changed
NoEffect ==
    /\ pubCalls = 0
    /\ Len(queue) = atStart.queued
    /\ limits = atStart.limits

\* the tenant that owns an API key
KeyOwner(apiKey) ==
    CHOOSE c \in DOMAIN SecurityAPIKeys : SecurityAPIKeys[c] = apiKey

\* the steps of one request, in the order of the specification
Canon == <<"classify", "parse", "attribute", "ratelimit", "publish", "respond">>
Rank(step) == CHOOSE i \in 1..Len(Canon) : Canon[i] = step
InOrder(tr) == \A i \in 1..(Len(tr) - 1) : Rank(tr[i]) < Rank(tr[i + 1])
Did(step) == \E i \in 1..Len(trace) : trace[i] = step

(***************************************************************************)
(* C1.  Every POST /webhook with User-Agent "MailerCloud", or Webhook-Id   *)
(* "WebhookID", or a body that is {} or an object whose only field is      *)
(* test (whatever its value), is answered 200 with success:true; nothing   *)
(* is published for it and no rate-limit counter changes.                  *)
(* The statement of the claim; the router does not take {"test": null} for *)
(* a probe (requestBody["test"] != nil).                                   *)
(***************************************************************************)
C1_ProbeAnswered ==
    (Done /\ SpecProbe(req)) =>
        /\ resp.status = StatusOK
        /\ resp.success
        /\ NoEffect

(***************************************************************************)
(* C2.  A POST /webhook whose Webhook-Id is bound to tenant t1 and whose   *)
(* body is a valid event goes classification -> extraction -> publish and  *)
(* ends with 200, exactly one publish and a published event of tenant t1   *)
(* with the body's event: the body the router read is still readable by    *)
(* the handler.  Stated for the requests the limiter admits and the broker *)
(* accepts.  The statement of the claim; the handler finds the body        *)
(* consumed by the router's ShouldBindJSON.                                *)
(***************************************************************************)
C2_RealWebhookPublished ==
    (/\ Done
     /\ webhookToClient = MappingLoaded
     /\ req.webhookId = "abc123"
     /\ req.userAgent # "MailerCloud"
     /\ req.body = <<Obj(DocDelivered)>>
     /\ allowed # "false"
     /\ ~pubErr) =>
        /\ resp.status = StatusOK
        /\ pubCalls = 1
        /\ Len(queue) = atStart.queued + 1
        /\ queue[Len(queue)].headers.client_id = "t1"
        /\ queue[Len(queue)].body.event = "delivered"

(***************************************************************************)
(* C3.  A POST /webhook that the router does not take for a probe and that *)
(* carries a Webhook-Id other than "WebhookID" is never answered 401: it   *)
(* is handed to the webhook handler, whatever the API-key header.          *)
(***************************************************************************)
C3_WebhookIdNeedsNoKey ==
    (served > 0 /\ req.webhookId \notin {"", "WebhookID"}) =>
        /\ resp.status # StatusUnauthorized
        /\ Branch # "validation" =>
              /\ Branch = "mailercloud"
              /\ pc = "handler" \/ Did("parse")

\* a webhook with an invalid API key went through the handler and was accepted
C3_Witness ==
    /\ Done
    /\ req.webhookId = "abc123"
    /\ req.apiKey = "bad"
    /\ Did("parse")
    /\ resp.message = "Event accepted"

(***************************************************************************)
(* C4.  For a POST /webhook accepted through the API-key branch (no        *)
(* Webhook-Id, the key registered for tenant T), the tenant used for the   *)
(* rate-limit check, put on the published event and returned in the        *)
(* response is T, never "unknown".  The statement of the claim;            *)
(* extractClientID looks at the Webhook-Id header only.                    *)
(***************************************************************************)
C4_KeyBranchTenant ==
    (served > 0 /\ Branch = "authenticated" /\ Did("attribute")) =>
        /\ clientID = KeyOwner(req.apiKey)
        /\ Did("publish") /\ ~pubErr =>
              queue[Len(queue)].headers.client_id = KeyOwner(req.apiKey)
        /\ resp.message = "Event accepted" =>
              resp.client_id = KeyOwner(req.apiKey)

(***************************************************************************)
(* C5.  A POST /webhook that the router does not take for a probe and that *)
(* has no Webhook-Id is answered 401 "Missing API key" when the API-key    *)
(* header is absent and 401 "Invalid API key" when it equals no registered *)
(* key; in both cases nothing is published and no counter changes.         *)
(***************************************************************************)
C5_Unauthenticated ==
    (served > 0 /\ req.webhookId = "" /\ Branch # "validation") =>
        /\ req.apiKey = "" =>
              /\ Done
              /\ resp.status = StatusUnauthorized
              /\ resp.error = "Missing API key"
              /\ NoEffect
        /\ (req.apiKey # ""
              /\ \A c \in DOMAIN SecurityAPIKeys : SecurityAPIKeys[c] # req.apiKey) =>
              /\ Done
              /\ resp.status = StatusUnauthorized
              /\ resp.error = "Invalid API key"
              /\ NoEffect

\* an event body sent with a key nobody registered was turned away
C5_Witness ==
    /\ Done
    /\ req.webhookId = ""
    /\ req.apiKey = "bad"
    /\ req.body = <<Obj(DocDelivered)>>
    /\ resp.error = "Invalid API key"

(***************************************************************************)
(* C6.  For a default-tier tenant, inside one 24h window the first 10,000  *)
(* allow calls are accepted and the 10,001st and all later ones are        *)
(* rejected; the first call made 24h or more after the window anchor       *)
(* resets the counter before it is evaluated, so it is accepted and counts *)
(* as the first call of the new window.                                    *)
(***************************************************************************)
C6_DailyWindow ==
    \A id \in DOMAIN rlHist :
        LET h == rlHist[id]
        IN /\ id \in DOMAIN limits
           /\ ~limits[id].isPremium
           /\ h.ok <=> h.calls <= dailyLimit
           /\ h.ok => limits[id].dailyCount = h.calls
           /\ h.opened =>
                 /\ h.ok
                 /\ limits[id].dailyCount = 1
                 /\ limits[id].lastReset = h.anchor

\* a tenant that was turned away in one window is let through by the first
\* call of the next
C6_Witness ==
    /\ "t2" \in DOMAIN rlHist
    /\ rlHist["t2"].denied
    /\ rlHist["t2"].opened
    /\ rlHist["t2"].anchor > 0
    /\ rlHist["t2"].ok

(***************************************************************************)
(* C7.  In HandleWebhook the rate-limit check runs after tenant            *)
(* attribution and before the event is built and published; when the       *)
(* limiter refuses, the response is 429 and Publish is never called for    *)
(* that request.                                                           *)
(***************************************************************************)
C7_RateLimitBeforePublish ==
    /\ InOrder(trace)
    /\ Did("ratelimit") => Did("attribute")
    /\ (Did("publish") \/ event # NoEvent) => allowed = "true"
    /\ allowed = "false" =>
          /\ Done
          /\ resp.status = StatusTooManyRequests
          /\ pubCalls = 0
          /\ Len(queue) = atStart.queued

\* a request of a tenant at its daily limit was refused
C7_Witness ==
    /\ Done
    /\ allowed = "false"
    /\ clientID = "t1"
    /\ resp.status = StatusTooManyRequests

(***************************************************************************)
(* C8.  Publish is called exactly once for a request that passed the rate  *)
(* limiter, whether it succeeds or fails; when it returns an error the     *)
(* answer is 500 and there is no further publish attempt.                  *)
(***************************************************************************)
C8_PublishOnce ==
    /\ pubCalls <= 1
    /\ pubCalls = 1 => allowed = "true"
    /\ (Done /\ allowed = "true") => pubCalls = 1
    /\ (Done /\ pubCalls = 1 /\ pubErr) =>
          /\ resp.status = StatusInternalServerError
          /\ resp.error = "Failed to process event"
          /\ Len(queue) = atStart.queued

\* the broker refused the message and the caller was told 500
C8_Witness ==
    /\ Done
    /\ pubCalls = 1
    /\ pubErr
    /\ resp.status = StatusInternalServerError

C10_UnparseableRejected ==
    (Done /\ Handled /\ ~Decodes(req)) =>
        /\ resp.status = StatusBadRequest
        /\ NoEffect

(***************************************************************************)
(* C11.  A webhook POST with a valid JSON event but without any client     *)
(* identification is rejected with 400 and the publisher is never called   *)
(* for it: no event is ever published with an unidentified client.  The    *)
(* statement of the claim; extractClientID answers "unknown" and the       *)
(* handler goes on.                                                        *)
(***************************************************************************)
C11_UnidentifiedRejected ==
    /\ (Done /\ Handled /\ req.webhookId = "" /\ Did("attribute")) =>
          /\ resp.status = StatusBadRequest
          /\ pubCalls = 0
    /\ \A i \in 1..Len(queue) : queue[i].headers.client_id # "unknown"

(***************************************************************************)
(* Vocabulary of the worker properties.                                    *)
(***************************************************************************)
Messages == DOMAIN hist
\* the webhook_id the worker uses for a message
WidOf(m) == ApplyHeaders(Unmarshal(hist[m].msg.body, 0), hist[m].msg.headers).WebhookID
\* every storage write made for the message failed at the insertion
NeverStored(m) == hist[m].inserts = 0 /\ hist[m].insertFails = hist[m].fails
\* the worker is not working on the message
Settled(m) == inflight.mid # m
Queued(m) == \E i \in DOMAIN ready : ready[i].mid = m
Docs == DOMAIN coll

(***************************************************************************)
(* C12.  For a message whose storage write fails on every attempt, the     *)
(* retry count carried by the message grows by one with each failed        *)
(* attempt across the redeliveries, so that there are exactly maxRetries   *)
(* (3) failed attempts, the third of which marks the event failed and acks *)
(* the delivery: the message is not requeued a third time.  The statement  *)
(* of the claim; each delivery starts a new event with RetryCount 0.       *)
(***************************************************************************)
C12_RetryBudget ==
    \A m \in Messages :
        NeverStored(m) =>
            /\ hist[m].fails <= maxRetries
            /\ hist[m].requeues < maxRetries
            /\ (inflight.mid = m /\ wpc = "sleep") =>
                  wevent.RetryCount = hist[m].fails
            /\ hist[m].fails = maxRetries => hist[m].acks = 1

(***************************************************************************)
(* C13.  When the insertion of a message has failed three times and the    *)
(* worker is done with the third delivery, the collection holds a record   *)
(* of that webhook_id with status failed and retry_count 3, and the        *)
(* delivery was acked exactly once and is not queued again.  The statement *)
(* of the claim; the third failure is handled like the first (see C12),    *)
(* and UpdateOne creates no record when the insertion never succeeded.     *)
(***************************************************************************)
C13_FailedRecord ==
    \A m \in Messages :
        (hist[m].insertFails = 3 /\ hist[m].inserts = 0 /\ Settled(m)) =>
            /\ hist[m].acks = 1
            /\ hist[m].requeues = 2
            /\ ~Queued(m)
            /\ \E i \in Docs :
                  /\ coll[i].webhook_id = WidOf(m)
                  /\ coll[i].status = EventStatusFailed
                  /\ coll[i].retry_count = 3

(***************************************************************************)
(* C14.  A delivery whose body cannot be decoded as a WebhookEvent is      *)
(* nacked without requeue: nothing is inserted or updated in storage for   *)
(* it, it is never redelivered to the worker, and the worker goes on to    *)
(* the next delivery.                                                      *)
(***************************************************************************)
C14_MalformedDropped ==
    \A m \in Messages :
        ~hist[m].msg.ok =>
            /\ hist[m].deliveries <= 1
            /\ hist[m].drops = hist[m].deliveries
            /\ hist[m].acks = 0 /\ hist[m].requeues = 0
            /\ hist[m].inserts = 0 /\ hist[m].insertFails = 0 /\ hist[m].fails = 0
            /\ \A i \in Docs : origin[i].mid # m
            /\ Settled(m)
            /\ hist[m].deliveries = 1 => ~Queued(m)

\* a malformed delivery was dropped and the message behind it was stored
\* and acked
C14_Witness ==
    /\ 1 \in Messages /\ 2 \in Messages
    /\ ~hist[1].msg.ok
    /\ hist[1].drops = 1
    /\ hist[2].acks = 1
    /\ \E i \in Docs : origin[i].mid = 2

(***************************************************************************)
(* C15.  A stored record whose status is processed or failed never changes *)
(* status again, and every status change of a record is one of             *)
(* pending -> retrying|processed|failed or                                 *)
(* retrying -> pending|processed|failed, also when several deliveries      *)
(* carry the same webhook_id.  The statement of the claim; the update is   *)
(* keyed by webhook_id alone and lands on a record written by an earlier   *)
(* delivery.                                                               *)
(***************************************************************************)
StatusStep(a, b) ==
    \/ a = b
    \/ a = EventStatusPending
          /\ b \in {EventStatusRetrying, EventStatusProcessed, EventStatusFailed}
    \/ a = EventStatusRetrying
          /\ b \in {EventStatusPending, EventStatusProcessed, EventStatusFailed}

C15_StatusTransitions ==
    [][\A i \in Docs : StatusStep(coll[i].status, coll'[i].status)]_vars

(***************************************************************************)
(* C16.  The retry_count of a stored record never decreases over any       *)
(* sequence of worker operations, and it increases only in a step taken on *)
(* a failure path (handleError).  The statement of the claim; an update    *)
(* made by a later delivery writes that delivery's own count.              *)
(***************************************************************************)
C16_RetryCountMonotonic ==
    [][\A i \in Docs :
          /\ coll'[i].retry_count >= coll[i].retry_count
          /\ coll'[i].retry_count > coll[i].retry_count => wpc = "handle"]_vars

(***************************************************************************)
(* C17.  For every successfully published message, the record the worker   *)
(* stores on first consumption has a status among pending, processed,      *)
(* failed, retrying and retry_count >= 0, and its webhook_id, webhook_type *)
(* and client_id equal the three metadata headers the ingress put on the   *)
(* delivery; a non-empty header value overrides the value decoded from the *)
(* body.  (Stated for every record, whichever delivery wrote it.)          *)
(***************************************************************************)
Statuses ==
    {EventStatusPending, EventStatusProcessed, EventStatusFailed,
     EventStatusRetrying}
MetaKeys == {"webhook_id", "webhook_type", "client_id"}
Published(m) ==
    \E p \in IngressMessages :
        hist[m].msg.headers = p.headers /\ hist[m].msg.body = p.body

C17_StoredMetadata ==
    \A i \in Docs :
        LET m == origin[i].mid
            h == hist[m].msg.headers
        IN /\ coll[i].status \in Statuses
           /\ coll[i].retry_count >= 0
           /\ \A k \in MetaKeys : HeaderStr(h, k) # "" => coll[i][k] = h[k]
           /\ Published(m) => \A k \in MetaKeys : coll[i][k] = h[k]

\* the first delivery of a published message was stored under the tenant
\* of its client_id header
C17_Witness ==
    \E i \in Docs :
        /\ origin[i].delivery = 1
        /\ Published(origin[i].mid)
        /\ coll[i].client_id = "t1"
        /\ coll[i].webhook_type = "email_event"
        /\ coll[i].webhook_id = hist[origin[i].mid].msg.headers.webhook_id

(***************************************************************************)
(* C18.  Every record in the collection has a webhook_id, a client_id, an  *)
(* event, a received_at and a status, for every request body the ingress   *)
(* accepts, including a body with no event field or no identifying field;  *)
(* for a published message webhook_id, client_id and status are not empty. *)
(***************************************************************************)
RequiredKeys == {"webhook_id", "client_id", "event", "received_at", "status"}

C19_WorkerDrains ==
    /\ wproc = "exited" => (wpc = "idle" /\ inflight.mid = 0)
    /\ ~lateStart

(***************************************************************************)
(* C20.  On an interrupt or termination signal the ingress process closes  *)
(* the publisher, then shuts down the HTTP server with a 5-second drain,   *)
(* then closes the broker connection: the broker connection is still open  *)
(* while the HTTP server drains.  The statement of the claim; closing the  *)
(* publisher closes the connection with the channel, before the drain.     *)
(***************************************************************************)
Pos(tr, step) ==
    IF \E i \in DOMAIN tr : tr[i] = step
    THEN CHOOSE i \in DOMAIN tr : tr[i] = step
    ELSE 0

C20_ShutdownOrder ==
    /\ srvpc = "draining" => connOpen
    /\ srvpc = "exited" =>
          /\ Pos(shutTrace, "close_channel") = 1
          /\ Pos(shutTrace, "http_shutdown") = 2
          /\ Pos(shutTrace, "close_connection") = 3

(***************************************************************************)
(* C21.  A message that was published leaves the queue only through an ack *)
(* of the worker or a nack without requeue; a shutdown of the worker at    *)
(* any point, before the message is consumed or between its consumption    *)
(* and its settlement, never removes it: until it is settled the message   *)
(* is in the queue or with the running consumer, exactly once, and after   *)
(* an exit it is back in the queue for the worker that is started next.    *)
(***************************************************************************)
Held(m) == inflight.mid = m /\ wproc # "exited"
Copies(m) == Cardinality({i \in DOMAIN ready : ready[i].mid = m})
Removed(m) == hist[m].acks + hist[m].drops >= 1

C21_SettledOrKept ==
    \A m \in Messages :
        /\ hist[m].acks + hist[m].drops <= 1
        /\ IF Removed(m)
           THEN Copies(m) = 0 /\ ~Held(m)
           ELSE Copies(m) + (IF Held(m) THEN 1 ELSE 0) = 1
        /\ (wproc = "exited" /\ ~Removed(m)) => Queued(m)

\* a worker exited between consumption and settlement, the message was
\* never nacked, and the worker started next got it again and acked it
C21_Witness ==
    \E m \in Messages :
        /\ hist[m].deliveries = 2
        /\ hist[m].requeues = 0
        /\ hist[m].acks = 1

(***************************************************************************)
(* C22.  generateWebhookID returns, verbatim, the first non-empty string   *)
(* among webhook_id, message_id, event_id, delivery_id, tracking_id, in    *)
(* that order; only when none is a non-empty string, mc_ and the hex dump  *)
(* of [campaign_id, email, floor(ts), event] without its empty components; *)
(* only when that sequence has no component, mc_ and the nanosecond clock. *)
(* The statement of the claim; the function formats ts with %.0f, which    *)
(* rounds to nearest.                                                      *)
(***************************************************************************)
HasExplicitId(data) ==
    \E i \in DOMAIN idFields : IsStr(data, idFields[i]) /\ data[idFields[i]].s # ""
ExplicitId(data) ==
    LET i == CHOOSE i \in DOMAIN idFields :
                 /\ IsStr(data, idFields[i]) /\ data[idFields[i]].s # ""
                 /\ \A j \in 1..(i - 1) :
                        ~(IsStr(data, idFields[j]) /\ data[idFields[j]].s # "")
    IN data[idFields[i]].s
\* the four components as the specification names them, "" when empty
FloorTs(data) == IF IsNum(data, "ts") THEN ToString(data["ts"].n) ELSE ""
Quadruple(data) ==
    <<StrOf(data, "campaign_id"), StrOf(data, "email"), FloorTs(data),
      StrOf(data, "event")>>
NonEmpty(q) == SelectSeq(q, LAMBDA x : x # "")

C22_IdPriority ==
    gen.ida # "" =>
        IF HasExplicitId(gen.a) THEN gen.ida = ExplicitId(gen.a)
        ELSE IF NonEmpty(Quadruple(gen.a)) # <<>>
        THEN gen.ida = "mc_[" \o HexJoin(NonEmpty(Quadruple(gen.a))) \o "]"
        ELSE gen.ida = "mc_" \o ToString(gen.ta)

(***************************************************************************)
(* C23.  The webhook_id of the composite rule is deterministic: two bodies *)
(* without explicit id field that agree on campaign_id, email, floor(ts)   *)
(* and event get the same webhook_id, whatever the arrival time; two that  *)
(* differ in one of the four components get different webhook_ids.  The    *)
(* statement of the claim; the id rounds ts instead of flooring it, and    *)
(* it drops the empty components, so that the position of a value is lost. *)
(***************************************************************************)
Composite(data) == ~HasExplicitId(data) /\ NonEmpty(Quadruple(data)) # <<>>

C23_CompositeDeterministic ==
    (gen.ida # "" /\ gen.idb # "" /\ Composite(gen.a) /\ Composite(gen.b)) =>
        (Quadruple(gen.a) = Quadruple(gen.b)) = (gen.ida = gen.idb)

(***************************************************************************)
(* C24.  For a request handled with a Webhook-Id header w, the tenant is   *)
(* the registry's binding for w when one exists and w itself when none     *)
(* exists, also when the registry is empty or was never loaded; the tenant *)
(* is "unknown" only when the request has no Webhook-Id header at all.     *)
(* The statement of the claim.                                             *)
(***************************************************************************)
Bound(w) == w \in DOMAIN webhookToClient
Attributed == srvpc = "serving" /\ Did("attribute")
WebhookIdRule ==
    (Attributed /\ req.webhookId # "") =>
        clientID = IF Bound(req.webhookId) THEN webhookToClient[req.webhookId]
                   ELSE req.webhookId

C26_DebugEquivalent ==
    (dbg.stage = "on" /\ dbg.prod # NoOutcome /\ dbg.debug # NoOutcome) =>
        dbg.prod = dbg.debug

(***************************************************************************)
(* C27.  Every validation pattern of the validation-fix documentation is   *)
(* answered 200 with a success message and never 401: POST with User-Agent *)
(* MailerCloud, POST with Webhook-Id WebhookID, POST with an empty or test *)
(* payload, and POST with a validation event body such as                  *)
(* {"event":"validation"} that carries no MailerCloud header and no API    *)
(* key.  (GET /webhook is a route of its own.)  The statement of the       *)
(* claim; the router takes a body for a validation only when it is empty   *)
(* or has the single field test, and asks the others for an API key.       *)
(***************************************************************************)
ValidationPattern(r) ==
    \/ r.userAgent = "MailerCloud"
    \/ r.webhookId = "WebhookID"
    \/ Decodes(r) /\ BodyObj(r) \in {DocEmpty, DocTest}
    \/ /\ Decodes(r) /\ BodyObj(r) = DocValidation
       /\ r.webhookId = "" /\ r.apiKey = ""

C27_ValidationPatterns ==
    (Done /\ ValidationPattern(req)) =>
        /\ resp.status = StatusOK
        /\ resp.success
        /\ resp.message # ""

(***************************************************************************)
(* C28.  Under any interleaving of concurrent allow calls for the same     *)
(* default-tier tenant, at most 10,000 calls are accepted within one       *)
(* window and the stored daily count is the number of calls accepted in    *)
(* the window: no update is lost and the window is not reset twice when    *)
(* several calls find it expired.                                          *)
(***************************************************************************)
\* the calls of g accepted since the anchor of the current window
AcceptedSince(g, anchor) ==
    Cardinality({i \in DOMAIN calls[g].acc : calls[g].acc[i] >= anchor})
        + (IF anchor = 0 THEN calls[g].prior ELSE 0)
AcceptedInWindow ==
    AcceptedSince("g1", limits[MuClient].lastReset)
        + AcceptedSince("g2", limits[MuClient].lastReset)

C28_ConcurrentAllow ==
    MuClient \in DOMAIN limits =>
        /\ AcceptedInWindow <= dailyLimit
        /\ limits[MuClient].dailyCount = AcceptedInWindow

\* the client was one event short of its limit; when the window was over
\* both goroutines called at the same reading of the clock, and both calls
\* were counted in the new window
C28_Witness ==
    /\ MuClient \in DOMAIN limits
    /\ limits[MuClient].lastReset > 0
    /\ limits[MuClient].dailyCount = 2
    /\ \A g \in Goroutines :
          /\ calls[g].done = MaxCalls
          /\ calls[g].acc # <<>>
          /\ calls[g].acc[Len(calls[g].acc)] = limits[MuClient].lastReset
    /\ \E g \in Goroutines : Len(calls[g].acc) = 1 /\ calls[g].prior = 0

(***************************************************************************)
(* C29.  allow(t) changes only tenant t's entry: it never changes the      *)
(* counter or anchor of another tenant, a rejected call leaves t's daily   *)
(* count unchanged, and an accepted call increases t's daily count by      *)
(* exactly one; the entry for t is created on t's first call with count    *)
(* zero.  The statement of the claim.                                      *)
(***************************************************************************)
\* the step is a call of AllowRequest for id
CallOf(id) == calls'[id].n = calls[id].n + 1
OthersKept(id) ==
    \A o \in FrameClients \ {id} :
        IF o \in DOMAIN limits THEN o \in DOMAIN limits' /\ limits'[o] = limits[o]
        ELSE o \notin DOMAIN limits'
CountBefore(id) == IF id \in DOMAIN limits THEN limits[id].dailyCount ELSE 0
Rolls(id) ==
    id \in DOMAIN limits /\ Hours(now) - Hours(limits[id].lastReset) >= WindowHours

C29_Original ==
    [][\A id \in FrameClients : CallOf(id) =>
          /\ OthersKept(id)
          /\ id \in DOMAIN limits'
          /\ limits'[id].dailyCount =
                CountBefore(id) + (IF calls'[id].ok THEN 1 ELSE 0)]_vars

\* C29 as amended: an accepted call increases t's daily count by exactly
\* one, counted from zero when the call is the one that resets the window.
C29_OnlyOwnEntry ==
    [][\A id \in FrameClients : CallOf(id) =>
          /\ OthersKept(id)
          /\ id \in DOMAIN limits'
          /\ limits'[id].dailyCount =
                (IF Rolls(id) THEN 0 ELSE CountBefore(id))
                    + (IF calls'[id].ok THEN 1 ELSE 0)
          /\ (Rolls(id) \/ id \notin DOMAIN limits) => calls'[id].ok]_vars

\* t1 used its last event and was then turned away, t2 made its first call
\* in between: t1 stays at the limit and t2 is at one
C29_Witness ==
    /\ calls["t1"] = [n |-> 2, ok |-> FALSE]
    /\ calls["t2"] = [n |-> 1, ok |-> TRUE]
    /\ limits["t1"].dailyCount = dailyLimit
    /\ limits["t2"].dailyCount = 1

(***************************************************************************)
(* C30.  A tenant's rate-limit window is anchored to UTC midnight of the   *)
(* day of the tenant's first event; the counter is reset, and the anchor   *)
(* moved to the current time, exactly by the first allow call made when    *)
(* 24h or more have passed since the anchor, and no call made less than    *)
(* 24h after the anchor resets the counter.  The statement of the claim;   *)
(* the entry is created with lastReset at the time of the first call.      *)
(***************************************************************************)
\* the step is a call of AllowRequest for id in a rate-limiter run
Called(id) ==
    /\ id \in DOMAIN rlHist'
    /\ IF id \in DOMAIN rlHist THEN rlHist'[id] # rlHist[id] ELSE TRUE
\* the clock reading t in hours, and the midnight that begins its day
Midnight(t) == Hours(t) - (Hours(t) % 24)
Elapsed(id) == Hours(now) - Hours(limits[id].lastReset)

C30_WindowAnchor ==
    [][\A id \in RLClients : Called(id) =>
          IF id \notin DOMAIN limits
          THEN Hours(limits'[id].lastReset) = Midnight(now)
          ELSE IF Elapsed(id) >= WindowHours
          THEN limits'[id].lastReset = now /\ limits'[id].dailyCount = 1
          ELSE /\ limits'[id].lastReset = limits[id].lastReset
               /\ limits'[id].dailyCount >= limits[id].dailyCount]_vars

(***************************************************************************)
(* The backoff of a message that keeps failing.                            *)
(***************************************************************************)
\* the worker sleeps before it requeues the message it holds
Sleeping == wproc # "exited" /\ wpc = "sleep"
\* how many times the message in the worker's hands has failed so far
FailedSoFar == hist[inflight.mid].fails

\* C31: the sleep before the n-th requeue of a message is computed with
\* retry_count = n: it lies in [0.5, 1.0) x 10 s x 2^(n-1)
C31_BackoffDoubles ==
    Sleeping =>
        calculateBackoff(wevent.RetryCount) =
            [low |-> 5 * Pow2(FailedSoFar - 1), high |-> 10 * Pow2(FailedSoFar - 1)]

(***************************************************************************)
(* The fields of the event and of the stored document.                     *)
(***************************************************************************)
\* the handler has extracted the event from the body
Extracted == pipe.stage \in {"event", "message", "decoded", "stored"}
\* the worker has stored the document of the decoded event
Stored == pipe.stage = "stored"

\* C32: an aliased field gets the value of the first alias, in order, that
\* is a non-empty string; an empty alias does not shadow a later one
C32_FirstNonEmptyAlias ==
    Extracted =>
        /\ pipe.event.CampaignName =
               FirstNonEmpty(pipe.data, <<"campaign_name", "campaign name">>)
        /\ pipe.event.CampaignID =
               FirstNonEmpty(pipe.data, <<"campaign_id", "camp_id">>)
        /\ pipe.event.TagName = FirstNonEmpty(pipe.data, <<"tag_name", "tag">>)
        /\ pipe.event.URL = FirstNonEmpty(pipe.data, <<"URL", "url", "click_url">>)

\* the optional fields of the event and the keys InsertEvent gives them
OptionalStrings ==
    [campaign_id |-> pipe.wevent.CampaignID,
     campaign_name |-> pipe.wevent.CampaignName,
     tag_name |-> pipe.wevent.TagName,
     date_event |-> pipe.wevent.DateEvent,
     url |-> pipe.wevent.URL,
     email |-> pipe.wevent.Email,
     reason |-> pipe.wevent.Reason]
\* the document holds the number v under one of the keys
HoldsNumber(keys, v) ==
    \E k \in keys \cap DOMAIN pipe.doc : pipe.doc[k] = v

\* C33: insert stores every field of the event that is set, the numeric
\* timestamp and timestamp_event among them, and omits exactly the optional
\* fields that are empty strings, a nil list_id or an empty emails sequence
C33_InsertStoresSetFields ==
    Stored =>
        /\ \A k \in DOMAIN OptionalStrings :
               IF OptionalStrings[k] = "" THEN k \notin DOMAIN pipe.doc
               ELSE k \in DOMAIN pipe.doc /\ pipe.doc[k] = OptionalStrings[k]
        /\ IF pipe.wevent.ListID = Null THEN "list_id" \notin DOMAIN pipe.doc
           ELSE "list_id" \in DOMAIN pipe.doc
                    /\ pipe.doc["list_id"] = pipe.wevent.ListID
        /\ IF pipe.wevent.Emails = <<>> THEN "emails" \notin DOMAIN pipe.doc
           ELSE "emails" \in DOMAIN pipe.doc
                    /\ pipe.doc["emails"] = pipe.wevent.Emails
        /\ pipe.wevent.Timestamp # 0 =>
               HoldsNumber({"ts", "timestamp"}, pipe.wevent.Timestamp)
        /\ pipe.wevent.TimestampEvent # 0 =>
               HoldsNumber({"ts_event", "timestamp_event"},
                           pipe.wevent.TimestampEvent)

(***************************************************************************)
(* The status updates of the worker.                                       *)
(***************************************************************************)
\* a step in which UpdateEventStatus returned without error: the update to
\* processed that is followed by the ack, or an update of handleError that
\* wrote
UpdateReturned ==
    \/ wpc = "update" /\ wpc' = "idle"
    \/ wpc = "handle" /\ coll' # coll
\* the status that step asked for
AskedStatus ==
    IF wpc = "update" THEN EventStatusProcessed
    ELSE IF wpc' = "sleep" THEN EventStatusRetrying
    ELSE EventStatusFailed

\* C34: after update_status(webhook_id, s, n) returns without error, every
\* stored document with that webhook_id has status s and retry_count n
C34_UpdateReachesEveryDocument ==
    [][UpdateReturned =>
          \A i \in Matching(coll', wevent'.WebhookID) :
              /\ coll'[i].status = AskedStatus
              /\ coll'[i].retry_count = wevent'.RetryCount]_vars

(***************************************************************************)
(* The registry: who writes it, and the keys the ingress accepts.          *)
(***************************************************************************)
\* the two mappings of the registry
Registry == <<webhookToClient, boot.clientToAPIKey>>
\* the startup load is over
Loaded == srvpc # "starting"
\* a lookup of a request found the Webhook-Id bound, or went to the
\* fallback
LookedUp == Did("attribute") /\ req.webhookId # ""

\* C35: the registry's mappings are written only by the load at startup,
\* which is over before the first request is served; no handler and no
\* later step writes them
C35_RegistryWrittenAtStartupOnly ==
    [][/\ Registry' # Registry => ~Loaded /\ Loaded' /\ served = 0 /\ pc = "idle"
       /\ Loaded => Loaded'
       /\ served' # served => Loaded]_vars

\* the load bound t1's webhook and registered the packed keys, and after it
\* a request was attributed through the mapping and a second one by the
\* fallback
C35_Witness ==
    /\ Loaded
    /\ webhookToClient = ("abc123" :> "t1")
    /\ boot.clientToAPIKey # NoKeys
    /\ served = 2
    /\ LookedUp
    /\ ~Bound(req.webhookId)
    /\ \E i \in 1..Len(queue) : queue[i].headers.client_id = "t1"

\* the keys registered in the registry: those of the packed list the load
\* read, and those of the <NAME>_API_KEY variables
RegistryKeys ==
    {boot.clientToAPIKey[c] : c \in DOMAIN boot.clientToAPIKey}
        \cup {Environ[n] : n \in {m \in DOMAIN Environ :
                                      HasSuffixApiKey(m) /\ Environ[m] # ""}}
\* the request in flight was decided by its API key
KeyBranch == served > 0 /\ Branch \in {"invalid_key", "authenticated"}

\* C36: in the API-key branch the ingress accepts exactly the keys of the
\* registry: a key of the packed tenant:key list or of a <NAME>_API_KEY
\* variable is accepted, any other key is answered 401
C36_AcceptedKeysAreRegistryKeys ==
    (Done /\ Loaded /\ boot.keys /\ KeyBranch) =>
        (resp.status = StatusUnauthorized <=> req.apiKey \notin RegistryKeys)

(***************************************************************************)
(* The order of the worker's steps on one delivery.                        *)
(***************************************************************************)
\* the step acks, or nacks with requeue, a delivery of the message
Acks(m) == hist'[m].acks > hist[m].acks
Requeues(m) == hist'[m].requeues > hist[m].requeues
\* the delivery in the worker's hands was inserted
InsertedNow(m) ==
    \E i \in DOMAIN origin :
        origin[i] = [mid |-> m, delivery |-> hist[m].deliveries]
\* after the step the document UpdateOne writes to has the status, or the
\* update failed or found no document
Wrote(status) ==
    \/ coll' = coll
    \/ /\ Matching(coll', wevent'.WebhookID) # {}
       /\ coll'[FirstMatch(coll', wevent'.WebhookID)].status = status

\* C37: the worker acks on the happy path only after the insert and the
\* update to processed succeeded; on a storage failure with budget left it
\* writes retrying, then sleeps, then nacks with requeue, and the message
\* is with no consumer during the sleep; with the budget exhausted it
\* writes failed and then acks
C37_WorkerStateMachine ==
    [][\A m \in Messages :
          /\ Acks(m) =>
                /\ inflight.mid = m
                /\ \/ /\ wpc = "update"
                      /\ InsertedNow(m)
                      /\ coll'[FirstMatch(coll', wevent.WebhookID)].status
                             = EventStatusProcessed
                   \/ /\ wpc = "handle"
                      /\ wevent'.RetryCount >= maxRetries
                      /\ Wrote(EventStatusFailed)
          /\ Requeues(m) =>
                /\ inflight.mid = m
                /\ wpc = "sleep"
                /\ ready' = <<inflight>> \o ready
          /\ (inflight.mid = m /\ wpc # "sleep" /\ wpc' = "sleep") =>
                /\ wpc = "handle"
                /\ wevent'.RetryCount < maxRetries
                /\ Wrote(EventStatusRetrying)
                /\ ~Acks(m) /\ ~Requeues(m)
          /\ (Sleeping /\ inflight.mid = m) => ~Queued(m)]_vars

\* one message was stored and acked without a failure; the next one was
\* inserted, its update failed, its document is retrying and the worker
\* sleeps with the message, which is not in the queue
C37_Witness ==
    /\ Sleeping
    /\ inflight.mid = 2
    /\ hist[1].acks = 1 /\ hist[1].fails = 0
    /\ hist[2].inserts = 1
    /\ WidOf(1) # WidOf(2)
    /\ \E i \in Docs : origin[i].mid = 2 /\ coll[i].status = EventStatusRetrying
    /\ ~Queued(2)

(***************************************************************************)
(* The settlement of the deliveries.                                       *)
(***************************************************************************)
\* how often a delivery of the message was settled, in any of the three ways
Settlements(m) == hist[m].acks + hist[m].requeues + hist[m].drops
\* the consumer goroutine has a delivery of the message in its hands
Processing(m) == inflight.mid = m
InProcessing == {m \in Messages : Processing(m)}

\* C38: every delivery the worker takes is settled exactly once, by an ack,
\* a nack with requeue or a nack without requeue, on every path of the
\* loop, and the worker takes the next delivery only when the current one
\* is settled: at most one delivery is in processing
C38_SettledExactlyOnce ==
    /\ Cardinality(InProcessing) <= 1
    /\ \A m \in Messages :
          hist[m].deliveries =
              Settlements(m) + (IF Processing(m) THEN 1 ELSE 0)
    /\ (wpc = "idle") = (InProcessing = {})
    /\ inflight.mid # 0 => inflight.mid \in Messages

\* a malformed message was dropped; the other message was requeued after a
\* failed update whose status write failed as well, or not, and acked on
\* its second delivery
C38_Witness ==
    /\ wpc = "idle"
    /\ \E m \in Messages : hist[m].drops = 1 /\ hist[m].deliveries = 1
    /\ \E m \in Messages :
          /\ hist[m].deliveries = 2
          /\ hist[m].requeues = 1
          /\ hist[m].acks = 1

(***************************************************************************)
(* The documents of one message.                                           *)
(***************************************************************************)
\* the documents the deliveries of the message inserted
DocsOf(m) == {i \in Docs : origin[i].mid = m}

\* C39 as stated: over all its redeliveries at most one document is
\* inserted for a message
C39_Original == \A m \in Messages : hist[m].inserts <= 1

\* C39 as amended: at most one document is inserted per delivery of a
\* message, so over its redeliveries at most as many documents as
\* deliveries; a message whose insert succeeded and whose status update
\* failed is inserted again when it is redelivered
C39_OneInsertPerDelivery ==
    /\ \A m \in Messages :
          /\ hist[m].inserts <= hist[m].deliveries
          /\ Cardinality(DocsOf(m)) = hist[m].inserts
    /\ \A i \in Docs : \A j \in Docs : origin[i] = origin[j] => i = j

\* the insert of a message succeeded and its update failed; the message
\* was requeued, and its second delivery inserted a second document
C39_Witness ==
    \E m \in Messages :
        /\ hist[m].deliveries = 2
        /\ hist[m].insertFails = 0
        /\ hist[m].fails = 1
        /\ hist[m].requeues = 1
        /\ Cardinality(DocsOf(m)) = 2

(***************************************************************************)
(* The quota and the events that were published.                           *)
(***************************************************************************)
\* the daily count of a tenant in a limiter table
CountIn(lims, c) == IF c \in DOMAIN lims THEN lims[c].dailyCount ELSE 0
\* the events published for the tenant
PublishedFor(c) ==
    Cardinality({i \in 1..Len(queue) : queue[i].headers.client_id = c})
Tenants ==
    DOMAIN limits \cup {queue[i].headers.client_id : i \in 1..Len(queue)}
\* the request in flight was charged one unit
Charged == CountIn(limits, clientID) = CountIn(atStart.limits, clientID) + 1

\* C40: for every tenant the events published in the window are at most
\* the tenant's daily count; the quota is charged before the publish and is
\* not refunded, so a request answered 500 has consumed one unit
C40_PublishedWithinQuota ==
    /\ \A c \in Tenants : PublishedFor(c) <= CountIn(limits, c)
    /\ pc \in {"publish", "respond"} => Charged
    /\ (Done /\ Did("publish")) => Charged
    /\ (Done /\ resp.status = StatusInternalServerError) =>
          /\ Charged
          /\ Len(queue) = atStart.queued

\* the tenant's first request was published, its second was charged and the
\* publish failed: two units are used and one event is published
C40_Witness ==
    /\ Done
    /\ served = 2
    /\ resp.status = StatusInternalServerError
    /\ PublishedFor(clientID) = 1
    /\ CountIn(limits, clientID) = 2

=============================================================================
